---- MODULE Spec2Model ----
(***************************************************************************)
(* A model of roboto's JSON <-> dataclass conversion (roboto/datautil.py). *)
(*                                                                         *)
(* Python values are tagged tuples, so that values of different Python     *)
(* types can be compared:                                                  *)
(*   <<"None">>                 None                                       *)
(*   <<"bool", b>>              True / False                               *)
(*   <<"int", n>>               the int n                                  *)
(*   <<"float", h>>             the float h/2 (floats are kept in halves,  *)
(*                              so 1.0 is <<"float", 2>>, 1.5 is           *)
(*                              <<"float", 3>>)                            *)
(*   <<"str", s>>               the str s                                  *)
(*   <<"list", <<v1, ...>>>>    a list                                     *)
(*   <<"dict", <<<<k1, v1>>, ...>>>>  a dict, in insertion order           *)
(*   <<"dataclass", cls, <<<<f1, v1>>, ...>>>>  a dataclass instance       *)
(*   <<"enum", cls, member>>    an Enum member                             *)
(*   <<"object", cls>>          an instance of a class that is no          *)
(*                              dataclass (a plain class, an open file)    *)
(*   <<"set">>                  a value that is no JSON kind (a set)        *)
(* A call that raises yields <<"raise", exception class, message>>.        *)
(*                                                                         *)
(* Types (schema classes) are tagged tuples too:                           *)
(*   <<"type", "int"|"float"|"str"|"bool">>, <<"Any">>,                    *)
(*   <<"Optional", T>>, <<"List", T>>, <<"NewType", name, T>>,             *)
(*   <<"Enum", name>>, <<"dataclass", name>>, <<"class", name>>.           *)
(***************************************************************************)
EXTENDS Integers, Sequences, FiniteSets

\* ------------------------------------------------------------------------
\* Bounds of the model.
\* ------------------------------------------------------------------------

\* Wire integers range over -MaxNum..MaxNum, wire floats over the halves
\* between -MaxNum and MaxNum.
MaxNum == 2

\* Longest wire Array / Python list that is drawn as an input.
MaxLen == 2

\* How many times a caller decodes the same wire value in a row.
MaxCalls == 2

\* ------------------------------------------------------------------------
\* Python values.
\* ------------------------------------------------------------------------

None == <<"None">>

PyBool(b) == <<"bool", b>>

PyInt(n) == <<"int", n>>

PyFloat(h) == <<"float", h>>

PyStr(s) == <<"str", s>>

PyList(s) == <<"list", s>>

PyDict(items) == <<"dict", items>>

Instance(cls, attrs) == <<"dataclass", cls, attrs>>

Member(cls, name) == <<"enum", cls, name>>

Raise(exc, msg) == <<"raise", exc, msg>>

IsRaise(r) == r[1] = "raise"

MISSING == <<"MISSING">>

\* ------------------------------------------------------------------------
\* Types.
\* ------------------------------------------------------------------------

int == <<"type", "int">>

float == <<"type", "float">>

str == <<"type", "str">>

bool == <<"type", "bool">>

Any == <<"Any">>

Optional(t) == <<"Optional", t>>

List(t) == <<"List", t>>

NewType(name, t) == <<"NewType", name, t>>

Enum(name) == <<"Enum", name>>

Dataclass(name) == <<"dataclass", name>>

\* A string annotation that spells the type expression t: api_types.py
\* postpones the evaluation of its annotations.
Annotation(t) == <<"annotation", t>>

UserID == NewType("UserID", int)

\* ------------------------------------------------------------------------
\* The declared dataclasses and enums (the schema the engine is given).
\* A field is [name, type, rename, default]: rename is the 'rename' entry of
\* the field's metadata ("" when the field declares none), default is the
\* field's default value (MISSING when the field declares none).
\* ------------------------------------------------------------------------

Field(name, type, rename, default) ==
    [name |-> name, type |-> type, rename |-> rename, default |-> default]

\* tests/test_datautil.py: _Renamed of test_from_dict.
Fields_Renamed ==
    << Field("a", int, "", MISSING),
       Field("from_", str, "from", MISSING) >>

\* tests/test_datautil.py: _SmallDummyType of test_from_json_like_optional_any.
Fields_SmallDummyType ==
    << Field("a", int, "", MISSING),
       Field("b", Optional(Any), "", None) >>

\* tests/test_datautil.py: _HasEnumMembers of test_to_json_like_enum_type.
Fields_HasEnumMembers ==
    << Field("x", Enum("_MyEnum"), "", MISSING),
       Field("y", Enum("_StrEnum"), "", MISSING) >>

\* api_types.py: User(_UserOptionalCommon, _UserRequiredCommon).
FieldsUser ==
    << Field("id", Annotation(UserID), "", MISSING),
       Field("is_bot", Annotation(bool), "", MISSING),
       Field("first_name", Annotation(str), "", MISSING),
       Field("last_name", Annotation(Optional(str)), "", None),
       Field("username", Annotation(Optional(str)), "", None),
       Field("language_code", Annotation(Optional(str)), "", None) >>

\* api_types.py: Location.
FieldsLocation ==
    << Field("longitude", Annotation(float), "", MISSING),
       Field("latitude", Annotation(float), "", MISSING) >>

\* api_types.py: InlineQuery.
FieldsInlineQuery ==
    << Field("id", Annotation(str), "", MISSING),
       Field("query", Annotation(str), "", MISSING),
       Field("offset", Annotation(str), "", MISSING),
       Field("from_", Annotation(Dataclass("User")), "from", MISSING),
       Field("location", Annotation(Optional(Dataclass("Location"))), "", None) >>

\* api_types.py: PollAnswer.
FieldsPollAnswer ==
    << Field("poll_id", Annotation(str), "", MISSING),
       Field("user", Annotation(Dataclass("User")), "", MISSING),
       Field("option_ids", Annotation(List(int)), "", MISSING) >>

\* api_types.py: ResponseParameters (Optional fields that declare no default).
FieldsResponseParameters ==
    << Field("migrate_to_chat_id", Annotation(Optional(int)), "", MISSING),
       Field("retry_after", Annotation(Optional(int)), "", MISSING) >>

\* A dataclass whose module postpones the evaluation of annotations and in
\* which the annotation of b names a class, _Undeclared, that the module
\* does not define:
\*     a: int
\*     b: Optional[_Undeclared] = None
Fields_Unresolved ==
    << Field("a", Annotation(int), "", MISSING),
       Field("b", Annotation(Optional(Dataclass("_Undeclared"))), "", None) >>

\* dataclasses.fields(cls): the fields of a dataclass, in declaration order.
\* http_api.py: AnyAPIResponse, the envelope of every Bot API response.
FieldsAnyAPIResponse ==
    << Field("ok", bool, "", MISSING),
       Field("result", Optional(Any), "", None),
       Field("error_code", Optional(int), "", None),
       Field("description", Optional(str), "", None) >>

fields(cls) ==
    CASE cls = "_Renamed" -> Fields_Renamed
      [] cls = "_SmallDummyType" -> Fields_SmallDummyType
      [] cls = "_HasEnumMembers" -> Fields_HasEnumMembers
      [] cls = "User" -> FieldsUser
      [] cls = "Location" -> FieldsLocation
      [] cls = "InlineQuery" -> FieldsInlineQuery
      [] cls = "PollAnswer" -> FieldsPollAnswer
      [] cls = "ResponseParameters" -> FieldsResponseParameters
      [] cls = "_Unresolved" -> Fields_Unresolved
      [] cls = "AnyAPIResponse" -> FieldsAnyAPIResponse

\* The names of the dataclass's fields (the keys of __dataclass_fields__).
FieldNames(cls) == {fields(cls)[i].name : i \in 1..Len(fields(cls))}

\* The field of the dataclass named field_name.
FieldNamed(cls, field_name) ==
    fields(cls)[CHOOSE i \in 1..Len(fields(cls)) : fields(cls)[i].name = field_name]

\* The value of an Enum member.
EnumValue(cls, member) ==
    CASE cls = "_MyEnum" /\ member = "A" -> PyInt(1)
      [] cls = "_MyEnum" /\ member = "B" -> PyInt(2)
      [] cls = "_StrEnum" /\ member = "A" -> PyStr("text")
      [] cls = "_StrEnum" /\ member = "B" -> PyStr("other")

\* ------------------------------------------------------------------------
\* dict operations on the ordered item sequence of a dict.
\* ------------------------------------------------------------------------

\* k in d
HasKey(items, k) == \E i \in 1..Len(items) : items[i][1] = k

\* d[k]
GetItem(items, k) == items[CHOOSE i \in 1..Len(items) : items[i][1] = k][2]

\* d.pop(k): the items that are left.
PopItem(items, k) == SelectSeq(items, LAMBDA it : it[1] # k)

\* d[k] = v: an existing key keeps its position, a new key goes last.
SetItem(items, k, v) ==
    IF HasKey(items, k)
    THEN [i \in 1..Len(items) |-> IF items[i][1] = k THEN <<k, v>> ELSE items[i]]
    ELSE Append(items, <<k, v>>)

\* The keys of a dict.
Keys(items) == {items[i][1] : i \in 1..Len(items)}

\* ------------------------------------------------------------------------
\* roboto/typing_util.py and the typing_inspect queries datautil.py makes.
\* ------------------------------------------------------------------------

is_optional_type(tp) == tp[1] = "Optional"

is_new_type(tp) == tp[1] = "NewType"

original_type(tp) == tp[3]

is_dataclass(tp) == tp[1] = "dataclass"

\* get_origin(strict_type) is list
is_list_type(tp) == tp[1] = "List"

\* The names of classes, aliases and enums a type expression uses.
RECURSIVE NamesIn(_)
NamesIn(t) ==
    CASE t[1] \in {"Optional", "List"} -> NamesIn(t[2])
      [] t[1] \in {"NewType", "Enum", "dataclass"} -> {t[2]}
      [] OTHER -> {}

\* vars(sys.modules[cls.__module__]): the names the module of cls defines,
\* as far as the modelled annotations use them.
ModuleVars(cls) ==
    IF cls \in {"User", "Location", "InlineQuery", "PollAnswer", "ResponseParameters"}
    THEN {"UserID", "User", "Location", "InlineQuery", "PollAnswer", "ResponseParameters"}
    ELSE {"_Renamed", "_SmallDummyType", "_HasEnumMembers", "_MyEnum", "_StrEnum"}

\* evaluate_type: a type is returned as it is, a string is evaluated in
\* context, which raises NameError for a name context does not define.
evaluate_type(type_hint, context) ==
    IF type_hint[1] # "annotation"
    THEN type_hint
    ELSE IF NamesIn(type_hint[2]) \subseteq context
         THEN type_hint[2]
         ELSE Raise("NameError", "name is not defined")

field_type(cls, field_name) ==
    evaluate_type(FieldNamed(cls, field_name).type, ModuleVars(cls))

\* A mutation of renames: the table maps field name -> rename.
renames_reversed(cls) ==
    LET renamed == SelectSeq(fields(cls), LAMBDA f : f.rename # "")
    IN  [i \in 1..Len(renamed) |-> <<renamed[i].name, renamed[i].rename>>]

\* renames(cls): the items rename -> field name, one per field that declares
\* a rename, in field order.
renames(cls) ==
    LET renamed == SelectSeq(fields(cls), LAMBDA f : f.rename # "")
    IN  [i \in 1..Len(renamed) |-> <<renamed[i].rename, renamed[i].name>>]

\* ------------------------------------------------------------------------
\* Python built-ins used by from_json.
\* ------------------------------------------------------------------------

\* isinstance(j, get_args(JSONPrimitives)) for a j that is not None.
IsJSONPrimitive(j) == j[1] \in {"int", "float", "str", "bool"}

\* isinstance(j, get_args(Number)): bool is a subclass of int.
IsNumber(j) == j[1] \in {"int", "float", "bool"}

\* isinstance(j, tp) raises TypeError for a subscripted generic.
InstanceCheckRaises(tp) == tp[1] \in {"List", "Optional"}

\* A mutation of isinstance: the subclass relation of bool and int is taken
\* the wrong way round, so that an int passes for a bool.
isinstance_int_is_bool(j, tp) ==
    CASE tp = int -> j[1] = "int"
      [] tp = float -> j[1] = "float"
      [] tp = str -> j[1] = "str"
      [] tp = bool -> j[1] \in {"bool", "int"}
      [] OTHER -> FALSE

\* isinstance(j, tp) for a primitive j and a class tp.
isinstance(j, tp) ==
    CASE tp = int -> j[1] \in {"int", "bool"}
      [] tp = float -> j[1] = "float"
      [] tp = str -> j[1] = "str"
      [] tp = bool -> j[1] = "bool"
      [] OTHER -> FALSE

\* The integer a number stands for, in halves.
Halves(j) ==
    CASE j[1] = "int" -> 2 * j[2]
      [] j[1] = "float" -> j[2]
      [] j[1] = "bool" -> IF j[2] THEN 2 ELSE 0

\* int(j) truncates towards zero.
IntOf(j) ==
    LET h == Halves(j)
    IN  PyInt(IF h >= 0 THEN h \div 2 ELSE -((-h) \div 2))

\* float(j)
FloatOf(j) == PyFloat(Halves(j))

\* A mutation of CallType: the number is returned as it is.
CallType_unconverted(schema_class, j) == j

\* schema_class(j), the call of datautil.py line 177: int and float convert,
\* a NewType returns its argument, Optional[...] cannot be instantiated.
CallType(schema_class, j) ==
    CASE schema_class = int -> IntOf(j)
      [] schema_class = float -> FloatOf(j)
      [] schema_class[1] = "NewType" -> j
      [] OTHER -> Raise("TypeError", "Cannot instantiate typing.Union")

\* ------------------------------------------------------------------------
\* The decoder: from_json, from_dict, from_list.
\* A call yields <<what the call returns or raises, the argument j after the
\* call>>: from_dict changes the dict it is given in place.
\* ------------------------------------------------------------------------

\* The messages of the JSONConversionErrors from_json raises.
NoneIntoNonOptional == "Cannot read None into non-optional type"

PrimitiveIntoNonPrimitive == "Cannot read primitive value into non-primitive type"

DictIntoNonDataclass == "Cannot read dictionary into non-dataclass type"

ListIntoNonList == "Failed to read list of types into non-list type"

FailedToReadValue == "Failed to read value into type"

JSONConversionError(msg) == Raise("JSONConversionError", msg)

\* A mutation of resolve_type: the Optional wrapper is not taken off.
resolve_type_keeps_optional(schema_class) ==
    IF is_new_type(schema_class) THEN original_type(schema_class) ELSE schema_class

\* resolve_type of from_json: the type inside Optional, a NewType replaced by
\* its supertype.
resolve_type(schema_class) ==
    LET strict_type == IF is_optional_type(schema_class)
                       THEN schema_class[2]
                       ELSE schema_class
    IN  IF is_new_type(strict_type) THEN original_type(strict_type) ELSE strict_type

\* The loop of from_dict over the renames: d[field_renames[k]] = d.pop(k).
RECURSIVE ApplyRenames(_, _)
ApplyRenames(field_renames, items) ==
    IF field_renames = <<>>
    THEN items
    ELSE LET k == Head(field_renames)[1]
             name == Head(field_renames)[2]
         IN  ApplyRenames(Tail(field_renames),
                          IF HasKey(items, k)
                          THEN SetItem(PopItem(items, k), name, GetItem(items, k))
                          ELSE items)

\* cls(**kwargs): the generated __init__ of a dataclass takes each field from
\* kwargs or from its default, and raises TypeError when a field has neither.
Construct(cls, kwargs) ==
    LET fs == fields(cls)
    IN  IF \E i \in 1..Len(fs) : ~HasKey(kwargs, fs[i].name) /\ fs[i].default = MISSING
        THEN Raise("TypeError", "missing required positional argument")
        ELSE Instance(cls, [i \in 1..Len(fs) |->
                 <<fs[i].name,
                   IF HasKey(kwargs, fs[i].name)
                   THEN GetItem(kwargs, fs[i].name)
                   ELSE fs[i].default>>])

RECURSIVE from_json(_, _)
RECURSIVE from_dict_items(_, _, _, _)
RECURSIVE from_list_items(_, _, _, _)

\* The dict comprehension of from_dict, from item i on: kwargs holds the
\* fields decoded so far; a raise ends the loop at once.
from_dict_items(cls, items, i, kwargs) ==
    IF i > Len(items)
    THEN <<Construct(cls, kwargs), PyDict(items)>>
    ELSE LET k == items[i][1]
         IN  IF k \notin FieldNames(cls)
             THEN from_dict_items(cls, items, i + 1, kwargs)
             ELSE LET tp == field_type(cls, k)
                      r == from_json(tp, items[i][2])
                      after == [items EXCEPT ![i] = <<k, r[2]>>]
                  IN  IF IsRaise(tp)
                      THEN <<tp, PyDict(items)>>
                      ELSE IF IsRaise(r[1])
                      THEN <<r[1], PyDict(after)>>
                      ELSE from_dict_items(cls, after, i + 1,
                                           Append(kwargs, <<k, r[1]>>))

\* A mutation of from_dict: the renamed keys are taken out of the caller's
\* dict for good.
from_dict_consumes(cls, d) ==
    LET r == from_dict_items(cls, ApplyRenames(renames(cls), d[2]), 1, <<>>)
    IN  <<r[1],
          PyDict(SelectSeq(r[2][2],
                           LAMBDA it : \A n \in 1..Len(renames(cls)) :
                                          it[1] # renames(cls)[n][2]))>>

from_dict(cls, d) ==
    from_dict_items(cls, ApplyRenames(renames(cls), d[2]), 1, <<>>)

\* The list comprehension of from_list, from element i on.
from_list_items(inner_type, v, i, out) ==
    IF i > Len(v)
    THEN <<PyList(out), PyList(v)>>
    ELSE LET r == from_json(inner_type, v[i])
             after == [v EXCEPT ![i] = r[2]]
         IN  IF IsRaise(r[1])
             THEN <<r[1], PyList(after)>>
             ELSE from_list_items(inner_type, after, i + 1, Append(out, r[1]))

\* A mutation of from_list: the comprehension leaves out the first element.
from_list_from_second(list_type, v) == from_list_items(list_type[2], v[2], 2, <<>>)

\* A mutation of from_list: the elements that do not decode are left out.
from_list_best_effort(list_type, v) ==
    from_list_items(list_type[2],
                    SelectSeq(v[2], LAMBDA e : ~IsRaise(from_json(list_type[2], e)[1])),
                    1, <<>>)

from_list(list_type, v) == from_list_items(list_type[2], v[2], 1, <<>>)

from_json(schema_class, j) ==
    LET optional == is_optional_type(schema_class)
        strict_type == resolve_type(schema_class)
    IN  IF strict_type = Any THEN <<j, j>>
        ELSE IF j = None
        THEN IF optional
             THEN <<None, j>>
             ELSE <<JSONConversionError(NoneIntoNonOptional), j>>
        ELSE IF IsJSONPrimitive(j)
        THEN IF InstanceCheckRaises(strict_type)
             THEN <<Raise("TypeError", "Subscripted generics cannot be used with class and instance checks"), j>>
             ELSE IF isinstance(j, strict_type) THEN <<j, j>>
             ELSE IF IsNumber(j) /\ strict_type \in {int, float}
             THEN <<CallType(schema_class, j), j>>
             ELSE <<JSONConversionError(PrimitiveIntoNonPrimitive), j>>
        ELSE IF j[1] = "dict"
        THEN IF is_dataclass(strict_type)
             THEN from_dict(strict_type[2], j)
             ELSE <<JSONConversionError(DictIntoNonDataclass), j>>
        ELSE IF j[1] = "list"
        THEN IF is_list_type(strict_type)
             THEN from_list(strict_type, j)
             ELSE <<JSONConversionError(ListIntoNonList), j>>
        ELSE <<JSONConversionError(FailedToReadValue), j>>

\* ------------------------------------------------------------------------
\* The encoder: to_json, over dataclasses.asdict.
\* ------------------------------------------------------------------------

FailedToTurn == "Failed to turn value into a JSONLike"

\* copy.deepcopy of a value that is no dataclass instance, list or dict:
\* the value is copied, except that an open file cannot be.
deepcopy(obj) ==
    IF obj = <<"object", "BufferedReader">>
    THEN Raise("TypeError", "cannot pickle '_io.BufferedReader' object")
    ELSE obj

RECURSIVE asdict_inner(_)
\* dataclasses._asdict_inner: dataclass instances become dicts keyed by
\* field name, lists and dicts are rebuilt, any other value is copied.
asdict_inner(obj) ==
    CASE obj[1] = "dataclass" ->
            PyDict([i \in 1..Len(obj[3]) |-> <<obj[3][i][1], asdict_inner(obj[3][i][2])>>])
      [] obj[1] = "list" ->
            PyList([i \in 1..Len(obj[2]) |-> asdict_inner(obj[2][i])])
      [] obj[1] = "dict" ->
            PyDict([i \in 1..Len(obj[2]) |-> <<obj[2][i][1], asdict_inner(obj[2][i][2])>>])
      [] OTHER -> deepcopy(obj)

RECURSIVE RaisedIn(_)
\* What was raised while a value was being rebuilt: the set of the raises
\* that the rebuilt value holds in place of a part.
RaisedIn(v) ==
    CASE v[1] = "raise" -> {v}
      [] v[1] = "list" -> UNION {RaisedIn(v[2][i]) : i \in 1..Len(v[2])}
      [] v[1] = "dict" -> UNION {RaisedIn(v[2][i][2]) : i \in 1..Len(v[2])}
      [] OTHER -> {}

\* dataclasses.asdict(obj): the rebuilt value, or what rebuilding raised.
asdict(obj) ==
    LET rebuilt == asdict_inner(obj)
    IN  IF RaisedIn(rebuilt) = {} THEN rebuilt ELSE CHOOSE r \in RaisedIn(rebuilt) : TRUE

\* A mutation of Kept: the filter is left out.
Kept_all(v) == TRUE

\* "if v is not None", the filter of to_json's dict comprehensions.
Kept(v) == v # None

\* A mutation of value_of: the member's name is taken for its value.
value_of_name(member) == PyStr(member[3])

\* obj.value of an Enum member.
value_of(member) == EnumValue(member[2], member[3])

RECURSIVE to_json(_)
RECURSIVE to_json_items(_, _, _)
RECURSIVE to_json_list(_, _, _)

\* {k: to_json(v) for k, v in items if v is not None}, from item i on.
to_json_items(items, i, out) ==
    IF i > Len(items)
    THEN PyDict(out)
    ELSE IF ~Kept(items[i][2])
    THEN to_json_items(items, i + 1, out)
    ELSE LET r == to_json(items[i][2])
         IN  IF IsRaise(r)
             THEN r
             ELSE to_json_items(items, i + 1, Append(out, <<items[i][1], r>>))

\* [to_json(v) for v in obj], from element i on.
to_json_list(v, i, out) ==
    IF i > Len(v)
    THEN PyList(out)
    ELSE LET r == to_json(v[i])
         IN  IF IsRaise(r) THEN r ELSE to_json_list(v, i + 1, Append(out, r))

to_json(obj) ==
    IF obj[1] \in {"int", "float", "str", "bool", "None"} THEN obj
    ELSE IF obj[1] = "dict" THEN to_json_items(obj[2], 1, <<>>)
    ELSE IF obj[1] = "dataclass"
    THEN LET d == asdict(obj)
         IN  IF IsRaise(d) THEN d ELSE to_json_items(d[2], 1, <<>>)
    ELSE IF obj[1] = "list" THEN to_json_list(obj[2], 1, <<>>)
    ELSE IF obj[1] = "enum" THEN to_json(value_of(obj))
    ELSE JSONConversionError(FailedToTurn)

\* ------------------------------------------------------------------------
\* The inputs the callers draw: wire values, target types and instances.
\* ------------------------------------------------------------------------

\* The dicts that take, for each key of the sequence keys in that order,
\* either no item or an item whose value is one of cand[key].
RECURSIVE DictsOver(_, _)
DictsOver(keys, cand) ==
    IF keys = <<>>
    THEN {<<>>}
    ELSE LET rest == DictsOver(Tail(keys), cand)
         IN  rest \cup {<<<<Head(keys), v>>>> \o r : v \in cand[Head(keys)], r \in rest}

\* The same items, last to first.
Reversed(items) == [i \in 1..Len(items) |-> items[Len(items) + 1 - i]]

\* The dicts of DictsOver in both key orders.
Objects(keys, cand) ==
    LET ds == DictsOver(keys, cand)
    IN  {PyDict(d) : d \in ds} \cup {PyDict(Reversed(d)) : d \in ds}

WireInts == {PyInt(n) : n \in -MaxNum..MaxNum}

WireFloats == {PyFloat(h) : h \in -2 * MaxNum..2 * MaxNum}

WireScalars ==
    {None, PyBool(TRUE), PyBool(FALSE), PyStr("text"), PyStr("")}
        \cup WireInts \cup WireFloats

\* The sequences over elems of length at most n.
RECURSIVE SeqsUpTo(_, _)
SeqsUpTo(elems, n) ==
    IF n = 0
    THEN {<<>>}
    ELSE LET shorter == SeqsUpTo(elems, n - 1)
         IN  shorter \cup {Append(q, e) : q \in shorter, e \in elems}

WireArrays ==
    {PyList(q) : q \in SeqsUpTo({PyInt(1), PyFloat(3), PyStr("text"), None}, MaxLen)}

UserObjects ==
    Objects(<<"id", "is_bot", "first_name", "last_name", "is_premium">>,
            [id |-> {PyInt(1), PyFloat(2)},
             is_bot |-> {PyBool(FALSE)},
             first_name |-> {PyStr("text")},
             last_name |-> {PyStr("x"), None},
             is_premium |-> {PyBool(TRUE)}])

\* A complete user, a user without its optional items, a user that lacks a
\* required item.
SomeUserObjects ==
    { PyDict(<< <<"id", PyInt(1)>>, <<"is_bot", PyBool(FALSE)>>,
                <<"first_name", PyStr("text")>>, <<"last_name", PyStr("x")>> >>),
      PyDict(<< <<"first_name", PyStr("text")>>, <<"id", PyInt(2)>>,
                <<"is_bot", PyBool(TRUE)>> >>),
      PyDict(<< <<"id", PyInt(1)>>, <<"is_bot", PyBool(FALSE)>> >>) }

LocationObjects ==
    Objects(<<"longitude", "latitude">>,
            [longitude |-> {PyInt(1), PyFloat(3), PyStr("text")},
             latitude |-> {PyFloat(2), PyInt(2)}])

SomeLocationObjects ==
    { PyDict(<< <<"longitude", PyFloat(3)>>, <<"latitude", PyFloat(2)>> >>),
      PyDict(<< <<"latitude", PyInt(1)>>, <<"longitude", PyInt(2)>> >>),
      PyDict(<< <<"longitude", PyFloat(3)>> >>) }

RenamedObjects ==
    Objects(<<"a", "from", "from_", "extra">>,
            [a |-> {PyInt(1), PyFloat(2), PyStr("text")},
             from |-> {PyStr("text"), PyInt(1), None},
             from_ |-> {PyStr("x")},
             extra |-> {PyInt(1)}])

SmallDummyObjects ==
    Objects(<<"a", "b">>,
            [a |-> {PyInt(1)},
             b |-> {None, PyInt(1), PyList(<<PyInt(1)>>),
                    PyDict(<< <<"a", PyStr("text")>> >>),
                    PyDict(<< <<"from", None>> >>)}])

HasEnumObjects ==
    Objects(<<"x", "y">>,
            [x |-> {PyInt(1), PyInt(2)},
             y |-> {PyStr("text"), PyStr("other")}])

InlineQueryObjects ==
    Objects(<<"id", "query", "offset", "from", "location">>,
            [id |-> {PyStr("text")},
             query |-> {PyStr("")},
             offset |-> {PyStr("")},
             from |-> SomeUserObjects,
             location |-> {None,
                           PyDict(<< <<"longitude", PyFloat(3)>>, <<"latitude", PyFloat(2)>> >>),
                           PyDict(<< <<"longitude", PyInt(1)>> >>)}])

PollAnswerObjects ==
    Objects(<<"poll_id", "user", "option_ids">>,
            [poll_id |-> {PyStr("text")},
             user |-> SomeUserObjects,
             option_ids |-> {PyList(<<>>), PyList(<<PyInt(1), PyInt(2)>>),
                             PyList(<<PyInt(1), PyStr("text")>>), PyInt(1)}])

ResponseParametersObjects ==
    Objects(<<"migrate_to_chat_id", "retry_after">>,
            [migrate_to_chat_id |-> {PyInt(1), PyFloat(2), None},
             retry_after |-> {PyInt(2), PyStr("text"), None}])

UnresolvedObjects ==
    Objects(<<"a", "b">>,
            [a |-> {PyInt(1), PyStr("text")},
             b |-> {None, PyDict(<<>>), PyInt(1)}])

\* The types a primitive or an Array is decoded against.
ScalarTypes == {int, float, str, bool, Any, UserID, Enum("_MyEnum"), Enum("_StrEnum")}

PlainTypes ==
    ScalarTypes \cup {List(int), List(Any), List(Optional(float)), Dataclass("_Renamed")}

TargetTypes == PlainTypes \cup {Optional(t) : t \in PlainTypes}

\* The objects of each dataclass, with the type they are decoded against.
RecordCases ==
    ({Dataclass("User"), Optional(Dataclass("User"))} \X UserObjects)
        \cup ({Dataclass("Location")} \X LocationObjects)
        \cup ({Dataclass("_Renamed"), Optional(Dataclass("_Renamed"))} \X RenamedObjects)
        \cup ({Dataclass("_SmallDummyType")} \X SmallDummyObjects)
        \cup ({Dataclass("_HasEnumMembers")} \X HasEnumObjects)
        \cup ({Dataclass("InlineQuery")} \X InlineQueryObjects)
        \cup ({Dataclass("PollAnswer")} \X PollAnswerObjects)
        \cup ({Dataclass("ResponseParameters")} \X ResponseParametersObjects)
        \cup ({Dataclass("_Unresolved")} \X UnresolvedObjects)
        \cup ({List(Dataclass("Location")), Optional(List(Dataclass("Location")))} \X
                {PyList(q) : q \in SeqsUpTo(SomeLocationObjects, MaxLen)})

\* <<schema_class, j>>: the decode calls that are made.
DecodeCases ==
    (TargetTypes \X (WireScalars \cup WireArrays \cup {<<"set">>}
                        \cup SmallDummyObjects))
        \cup RecordCases

\* Well-typed instances of the dataclasses.
Attr(name, value) == <<name, value>>

Strs == {PyStr("text"), PyStr("")}

OptionalStrs == {None, PyStr("x")}

UserInstances ==
    {Instance("User", << Attr("id", id), Attr("is_bot", b), Attr("first_name", PyStr("text")),
                         Attr("last_name", l), Attr("username", None),
                         Attr("language_code", c) >>) :
        id \in {PyInt(1), PyInt(MaxNum)}, b \in {PyBool(TRUE), PyBool(FALSE)},
        l \in OptionalStrs, c \in OptionalStrs}

SomeUserInstances ==
    {u \in UserInstances : u[3][1][2] = PyInt(1) /\ u[3][2][2] = PyBool(FALSE)
                           /\ u[3][6][2] = None}

LocationInstances ==
    {Instance("Location", << Attr("longitude", lo), Attr("latitude", la) >>) :
        lo \in {PyFloat(3), PyFloat(-2)}, la \in {PyFloat(2), PyFloat(0)}}

RenamedInstances ==
    {Instance("_Renamed", << Attr("a", a), Attr("from_", f) >>) :
        a \in WireInts, f \in Strs}

SmallDummyInstances ==
    {Instance("_SmallDummyType", << Attr("a", PyInt(1)), Attr("b", b) >>) :
        b \in {None, PyInt(1), PyList(<<None>>),
               PyDict(<< <<"a", None>>, <<"b", PyStr("text")>> >>),
               PyList(<<Instance("ResponseParameters",
                                 << Attr("migrate_to_chat_id", None),
                                    Attr("retry_after", PyInt(2)) >>)>>),
               <<"object", "_NotADataclass">>,
               <<"object", "BufferedReader">>}}

HasEnumInstances ==
    {Instance("_HasEnumMembers", << Attr("x", Member("_MyEnum", x)),
                                    Attr("y", Member("_StrEnum", y)) >>) :
        x \in {"A", "B"}, y \in {"A", "B"}}

InlineQueryInstances ==
    {Instance("InlineQuery", << Attr("id", PyStr("text")), Attr("query", PyStr("")),
                                Attr("offset", PyStr("")), Attr("from_", u),
                                Attr("location", l) >>) :
        u \in SomeUserInstances, l \in {None} \cup LocationInstances}

PollAnswerInstances ==
    {Instance("PollAnswer", << Attr("poll_id", PyStr("text")), Attr("user", u),
                               Attr("option_ids", PyList(ids)) >>) :
        u \in SomeUserInstances, ids \in SeqsUpTo({PyInt(1), PyInt(2)}, MaxLen)}

ResponseParametersInstances ==
    {Instance("ResponseParameters", << Attr("migrate_to_chat_id", m),
                                       Attr("retry_after", r) >>) :
        m \in {None, PyInt(1)}, r \in {None, PyInt(2)}}

\* The instances whose fields all hold values of the declared types.
WellTypedInstances ==
    UserInstances \cup LocationInstances \cup RenamedInstances
        \cup {i \in SmallDummyInstances : i[3][2][2] = None}
        \cup HasEnumInstances \cup InlineQueryInstances \cup PollAnswerInstances
        \cup ResponseParametersInstances

\* obj: the values that are encoded.
EncodeCases ==
    WellTypedInstances \cup SmallDummyInstances \cup WireScalars
        \cup {PyList(q) : q \in SeqsUpTo(ResponseParametersInstances, MaxLen)}
        \cup {Member("_MyEnum", "A"), Member("_StrEnum", "B"),
              <<"object", "_NotADataclass">>,
              <<"object", "BufferedReader">>,
              <<"set">>,
              PyList(<<PyInt(1), <<"object", "_NotADataclass">>>>),
              PyList(<<<<"object", "BufferedReader">>>>),
              PyList(<<PyList(<<None, PyInt(1)>>)>>),
              PyDict(<< <<"a", None>>,
                        <<"b", PyList(<<PyDict(<< <<"c", None>>, <<"d", PyInt(1)>> >>)>>)>> >>)}

\* ------------------------------------------------------------------------
\* The callers of the engine.
\*   phase         what the caller has done so far
\*   schema_class  the type the caller decodes against
\*   j             the wire value the caller holds and passes to from_json
\*   j0            the wire value as it was before the first call
\*   obj           the value the caller passes to to_json
\*   ret           what the latest call returned or raised
\*   prev          what the call before the latest returned or raised
\*   calls         the number of from_json calls made on j
\* ------------------------------------------------------------------------
VARIABLES phase, schema_class, j, j0, obj, ret, prev, calls

NoValue == <<"unset">>

callvars == <<phase, schema_class, j, j0, obj, ret, prev, calls>>

\* The threads that run from_dict on one shared dict (SpecThreads).
\*   entries  the entry table of the shared dict: the items in insertion
\*            order, a popped item leaving a dummy entry in its place
\*   pc       each thread's position in from_dict
\*   ri       each thread's position in the loop over field_renames
\*   popped   the value each thread's d.pop(k) returned
\*   iter     each thread's iterator over d.items()
\*   kw       the keyword arguments each thread's comprehension has built
\*   result   what each thread's call returned or raised
VARIABLES entries, pc, ri, popped, iter, kw, result

threadvars == <<entries, pc, ri, popped, iter, kw, result>>

\* One API call of the bot (SpecAPI).
\*   api_pc    the call's position: in the requester, decoding the envelope,
\*             validating it, decoding the result payload, or returned
\*   endpoint  the endpoint's response type the bot method decodes against
\*   content   content.json(), what the server answered
\*   response  the decoded envelope
\*   payload   the value handed to the decode against the endpoint type
\*   outcome   what the bot method returned or raised
VARIABLES api_pc, endpoint, content, response, payload, outcome

apivars == <<api_pc, endpoint, content, response, payload, outcome>>

\* The state of the parts outside the decode/encode calls and the threads.
\* Calls of media.py extract_media and extract_medias (SpecMedia).
\*   mcall      the function called last: "extract_media" or "extract_medias"
\*   marg       its argument: a media, or a sequence of medias
\*   extracted  what it returned or raised
\*   issued     the uuids uuid4 has handed out so far
\*   mcalls     the number of calls made
VARIABLES mcall, marg, extracted, issued, mcalls

mediavars == <<mcall, marg, extracted, issued, mcalls>>

\* Multipart requests (SpecMultipart).
\*   mp_op     the operation done last: "request" (_multipart_request),
\*             "attachments" (make_multipart_request_with_attachments) or
\*             "form_data" (_to_multipart_form_data)
\*   mp_body   body.__dict__ of the request
\*   mp_att    the attachments of the request
\*   mp_sent   the fields handed to session.request(multipart=...)
\*   mp_value  the value handed to _to_multipart_form_data
\*   mp_data   what _to_multipart_form_data returned or raised
VARIABLES mp_op, mp_body, mp_att, mp_sent, mp_value, mp_data

partvars == <<mp_op, mp_body, mp_att, mp_sent, mp_value, mp_data>>

\* The polling loop of bot_tester run_bot and the server it polls (SpecBot).
\*   bot_pc     the loop's position: "poll" before get_updates, "handle" in
\*              the for loop, "raised" once the handler has raised
\*   offset     the local variable offset
\*   updates    the batch get_updates returned last
\*   upd_i      the position of the for loop in the batch
\*   handled    the updates passed to the handler so far, in order
\*   requested  the offsets passed to get_updates so far, in order
\*   received   the updates of all batches received so far, in order
\*   next_id    the server's side: the update_id the next update gets
VARIABLES bot_pc, offset, updates, upd_i, handled, requested, received, next_id

botvars == <<bot_pc, offset, updates, upd_i, handled, requested, received, next_id>>

othervars == <<apivars, mediavars, partvars, botvars>>

vars == <<phase, schema_class, j, j0, obj, ret, prev, calls,
          entries, pc, ri, popped, iter, kw, result,
          api_pc, endpoint, content, response, payload, outcome,
          mcall, marg, extracted, issued, mcalls,
          mp_op, mp_body, mp_att, mp_sent, mp_value, mp_data,
          bot_pc, offset, updates, upd_i, handled, requested, received, next_id>>

\* No API call runs.
APIIdle ==
    /\ api_pc = "idle"
    /\ endpoint = NoValue
    /\ content = NoValue
    /\ response = NoValue
    /\ payload = NoValue
    /\ outcome = NoValue

\* The parts outside the decode/encode calls and the threads are at rest.
\* No media has been extracted.
MediaIdle ==
    /\ mcall = "none"
    /\ marg = NoValue
    /\ extracted = NoValue
    /\ issued = {}
    /\ mcalls = 0

\* No multipart request has been made.
MultipartIdle ==
    /\ mp_op = "none"
    /\ mp_body = NoValue
    /\ mp_att = NoValue
    /\ mp_sent = NoValue
    /\ mp_value = NoValue
    /\ mp_data = NoValue

\* No bot runs.
BotIdle ==
    /\ bot_pc = "idle"
    /\ offset = 0
    /\ updates = <<>>
    /\ upd_i = 0
    /\ handled = <<>>
    /\ requested = <<>>
    /\ received = <<>>
    /\ next_id = 0

OthersIdle == APIIdle /\ MediaIdle /\ MultipartIdle /\ BotIdle

MaxThreads == 2

Threads == 1..MaxThreads

\* No thread runs.
ThreadsIdle ==
    /\ entries = <<>>
    /\ pc = [th \in Threads |-> "idle"]
    /\ ri = [th \in Threads |-> 0]
    /\ popped = [th \in Threads |-> NoValue]
    /\ iter = [th \in Threads |-> NoValue]
    /\ kw = [th \in Threads |-> <<>>]
    /\ result = [th \in Threads |-> NoValue]

Init ==
    /\ phase = "start"
    /\ ret = NoValue
    /\ prev = NoValue
    /\ calls = 0
    /\ \/ /\ \E c \in DecodeCases :
                /\ schema_class = c[1]
                /\ j = c[2]
          /\ obj = NoValue
       \/ /\ obj \in EncodeCases
          /\ schema_class = NoValue
          /\ j = NoValue
    /\ j0 = j
    /\ ThreadsIdle
    /\ OthersIdle

\* The caller calls from_json(schema_class, j), for the first time or again
\* on the same wire value.
Decode ==
    /\ phase \in {"start", "decoded"}
    /\ j # NoValue
    /\ calls < MaxCalls
    /\ LET r == from_json(schema_class, j)
       IN  /\ ret' = r[1]
           /\ j' = r[2]
    /\ prev' = ret
    /\ calls' = calls + 1
    /\ phase' = "decoded"
    /\ UNCHANGED <<schema_class, j0, obj>>
    /\ UNCHANGED <<threadvars, othervars>>

\* The caller calls to_json(obj).
Encode ==
    /\ phase = "start"
    /\ obj # NoValue
    /\ ret' = to_json(obj)
    /\ phase' = "encoded"
    /\ UNCHANGED <<schema_class, j, j0, obj, prev, calls>>
    /\ UNCHANGED <<threadvars, othervars>>

\* The caller decodes the wire value to_json returned for a dataclass
\* instance against the instance's class.
DecodeEncoded ==
    /\ phase = "encoded"
    /\ obj[1] = "dataclass"
    /\ ~IsRaise(ret)
    /\ schema_class' = Dataclass(obj[2])
    /\ j0' = ret
    /\ LET r == from_json(Dataclass(obj[2]), ret)
       IN  /\ ret' = r[1]
           /\ j' = r[2]
    /\ prev' = ret
    /\ calls' = calls + 1
    /\ phase' = "roundtrip"
    /\ UNCHANGED obj
    /\ UNCHANGED <<threadvars, othervars>>

Next == Decode \/ Encode \/ DecodeEncoded

Spec == Init /\ [][Next]_vars

\* ------------------------------------------------------------------------
\* Threads that call from_json(_Renamed, d) on one shared dict d at the same
\* time.  Under the interpreter lock a thread switch falls between two
\* operations on the dict, never inside one, so each action below is one
\* operation on the shared dict together with the thread-local work that
\* follows it: "k in d", "d.pop(k)", "d[name] = value", "d.items()" and one
\* step of the iterator with the body of the comprehension.
\* The entry table is never resized here: the dict starts with at most four
\* items and the threads add one key at most.
\* ------------------------------------------------------------------------

\* The class the threads decode against.
ThreadClass == "_Renamed"

\* The entry a popped item leaves behind.
DUMMY == <<"<dummy>">>

\* The items of the dict, in order.
Live(table) == SelectSeq(table, LAMBDA e : e # DUMMY)

\* d.pop(k) on the entry table.
PopEntry(table, k) ==
    [i \in 1..Len(table) |-> IF table[i] # DUMMY /\ table[i][1] = k THEN DUMMY ELSE table[i]]

\* d[k] = v on the entry table: the value of an existing key is replaced
\* in its entry, a new key takes the next free entry.
StoreEntry(table, k, v) ==
    IF HasKey(Live(table), k)
    THEN [i \in 1..Len(table) |->
             IF table[i] # DUMMY /\ table[i][1] = k THEN <<k, v>> ELSE table[i]]
    ELSE Append(table, <<k, v>>)

\* The Objects the threads share.
ThreadObjects == RenamedObjects

InitThreads ==
    /\ phase = "threads"
    /\ schema_class = Dataclass(ThreadClass)
    /\ j0 \in ThreadObjects
    /\ j = NoValue
    /\ obj = NoValue
    /\ ret = NoValue
    /\ prev = NoValue
    /\ calls = 0
    /\ entries = j0[2]
    /\ pc = [th \in Threads |-> "check"]
    /\ ri = [th \in Threads |-> 1]
    /\ popped = [th \in Threads |-> NoValue]
    /\ iter = [th \in Threads |-> NoValue]
    /\ kw = [th \in Threads |-> <<>>]
    /\ result = [th \in Threads |-> NoValue]
    /\ OthersIdle

\* The call of thread th ends: it returns or raises r.
Finish(th, r) ==
    /\ result' = [result EXCEPT ![th] = r]
    /\ pc' = [pc EXCEPT ![th] = "done"]

\* for k in field_renames: if k in d
Check(th) ==
    /\ pc[th] = "check"
    /\ ri[th] <= Len(renames(ThreadClass))
    /\ IF HasKey(Live(entries), renames(ThreadClass)[ri[th]][1])
       THEN /\ pc' = [pc EXCEPT ![th] = "pop"]
            /\ ri' = ri
       ELSE /\ ri' = [ri EXCEPT ![th] = @ + 1]
            /\ pc' = pc
    /\ UNCHANGED <<othervars, callvars, entries, popped, iter, kw, result>>

\* d.pop(k), which raises KeyError when k is not in d (any more).
Pop(th) ==
    /\ pc[th] = "pop"
    /\ LET k == renames(ThreadClass)[ri[th]][1]
       IN  IF HasKey(Live(entries), k)
           THEN /\ popped' = [popped EXCEPT ![th] = GetItem(Live(entries), k)]
                /\ entries' = PopEntry(entries, k)
                /\ pc' = [pc EXCEPT ![th] = "store"]
                /\ result' = result
           ELSE /\ Finish(th, Raise("KeyError", k))
                /\ UNCHANGED <<entries, popped>>
    /\ UNCHANGED <<othervars, callvars, ri, iter, kw>>

\* d[field_renames[k]] = the popped value
Store(th) ==
    /\ pc[th] = "store"
    /\ entries' = StoreEntry(entries, renames(ThreadClass)[ri[th]][2], popped[th])
    /\ ri' = [ri EXCEPT ![th] = @ + 1]
    /\ pc' = [pc EXCEPT ![th] = "check"]
    /\ UNCHANGED <<othervars, callvars, popped, iter, kw, result>>

\* The loop over field_renames is over; d.items() starts an iterator, which
\* notes the size of the dict.
Items(th) ==
    /\ pc[th] = "check"
    /\ ri[th] > Len(renames(ThreadClass))
    /\ iter' = [iter EXCEPT ![th] = [used |-> Len(Live(entries)), pos |-> 1,
                                     len |-> Len(Live(entries))]]
    /\ pc' = [pc EXCEPT ![th] = "next"]
    /\ UNCHANGED <<othervars, callvars, entries, ri, popped, kw, result>>

\* One step of the iterator over d.items() and, for the item it yields, the
\* body of the comprehension; when the iterator is exhausted the class is
\* called with the keyword arguments.  The iterator raises RuntimeError when
\* the dict has changed its size since d.items(), or when it finds an item
\* after it has yielded as many as the dict had.
NextItem(th) ==
    /\ pc[th] = "next"
    /\ LET rest == {i \in iter[th].pos..Len(entries) : entries[i] # DUMMY}
           i == CHOOSE m \in rest : \A n \in rest : m <= n
           k == entries[i][1]
           tp == field_type(ThreadClass, k)
           r == from_json(tp, entries[i][2])[1]
       IN  IF iter[th].used # Len(Live(entries))
           THEN /\ Finish(th, Raise("RuntimeError", "dictionary changed size during iteration"))
                /\ UNCHANGED <<iter, kw>>
           ELSE IF rest = {}
           THEN /\ Finish(th, Construct(ThreadClass, kw[th]))
                /\ UNCHANGED <<iter, kw>>
           ELSE IF iter[th].len = 0
           THEN /\ Finish(th, Raise("RuntimeError", "dictionary keys changed during iteration"))
                /\ UNCHANGED <<iter, kw>>
           ELSE /\ iter' = [iter EXCEPT ![th] = [@ EXCEPT !.pos = i + 1, !.len = @ - 1]]
                /\ IF k \notin FieldNames(ThreadClass)
                   THEN UNCHANGED <<pc, result, kw>>
                   ELSE IF IsRaise(tp)
                   THEN Finish(th, tp) /\ kw' = kw
                   ELSE IF IsRaise(r)
                   THEN Finish(th, r) /\ kw' = kw
                   ELSE /\ kw' = [kw EXCEPT ![th] = Append(@, <<k, r>>)]
                        /\ UNCHANGED <<pc, result>>
    /\ UNCHANGED <<othervars, callvars, entries, ri, popped>>

NextThreads ==
    \E th \in Threads :
        Check(th) \/ Pop(th) \/ Store(th) \/ Items(th) \/ NextItem(th)

SpecThreads == InitThreads /\ [][NextThreads]_vars

\* The value an instance holds in the field named name.
AttrOf(instance, name) == GetItem(instance[3], name)

\* ------------------------------------------------------------------------
\* One API call: http_api.py _make_request and the bot method around it.

\* No decode/encode call of Spec and no thread of SpecThreads runs; the
\* specification at work is the one named by p.
CallsIdle(p) ==
    /\ phase = p
    /\ schema_class = NoValue
    /\ j = NoValue
    /\ j0 = NoValue
    /\ obj = NoValue
    /\ ret = NoValue
    /\ prev = NoValue
    /\ calls = 0
    /\ ThreadsIdle

\* error.py: BotAPIError(error_code, description).
BotAPIError(error_code, description) ==
    Raise("BotAPIError", <<error_code, description>>)

\* A mutation of validate_response: the result is returned whatever ok is.
validate_response_unchecked(resp) == AttrOf(resp, "result")

\* http_api.py: validate_response.  ok is a bool once the envelope is
\* decoded, so `not response.ok` is ok = False.
validate_response(resp) ==
    IF AttrOf(resp, "ok") = PyBool(FALSE)
    THEN BotAPIError(AttrOf(resp, "error_code"), AttrOf(resp, "description"))
    ELSE AttrOf(resp, "result")

\* The response types of the endpoints called: bool (bot.py set_chat_photo)
\* and a dataclass, User standing for the dataclasses the bot methods decode
\* against (bot.py get_me).
EndpointTypes == {bool, Dataclass("User")}

\* What a server may answer: an envelope with or without each of its
\* optional members.
APIContents ==
    Objects(<<"ok", "result", "error_code", "description">>,
            [ok |-> {PyBool(TRUE), PyBool(FALSE)},
             result |-> {None, PyBool(TRUE),
                         PyDict(<< <<"id", PyInt(1)>>, <<"is_bot", PyBool(FALSE)>>,
                                   <<"first_name", PyStr("text")>> >>)},
             error_code |-> {PyInt(1)},
             description |-> {PyStr("text")}])

InitAPI ==
    /\ CallsIdle("api")
    /\ MediaIdle
    /\ MultipartIdle
    /\ BotIdle
    /\ api_pc = "request"
    /\ endpoint \in EndpointTypes
    /\ content = NoValue
    /\ response = NoValue
    /\ payload = NoValue
    /\ outcome = NoValue

\* content = await requester(session, method, api_method, body)
Request ==
    /\ api_pc = "request"
    /\ content' \in APIContents
    /\ api_pc' = "envelope"
    /\ UNCHANGED <<callvars, threadvars, botvars, mediavars, partvars, endpoint, response, payload, outcome>>

\* response = from_json_like(AnyAPIResponse, content.json()); a raise leaves
\* the call.
DecodeEnvelope ==
    /\ api_pc = "envelope"
    /\ LET r == from_json(Dataclass("AnyAPIResponse"), content)[1]
       IN  IF IsRaise(r)
           THEN /\ outcome' = r
                /\ api_pc' = "done"
                /\ UNCHANGED response
           ELSE /\ response' = r
                /\ api_pc' = "validate"
                /\ UNCHANGED outcome
    /\ UNCHANGED <<callvars, threadvars, botvars, mediavars, partvars, endpoint, content, payload>>

\* return validate_response(response): the raise leaves the call, the
\* result is what make_request hands to the bot method.
Validate ==
    /\ api_pc = "validate"
    /\ LET r == validate_response(response)
       IN  IF IsRaise(r)
           THEN /\ outcome' = r
                /\ api_pc' = "done"
                /\ UNCHANGED payload
           ELSE /\ payload' = r
                /\ api_pc' = "result"
                /\ UNCHANGED outcome
    /\ UNCHANGED <<callvars, threadvars, botvars, mediavars, partvars, endpoint, content, response>>

\* bot.py: return from_json_like(<endpoint type>, await make_request(...))
DecodeResult ==
    /\ api_pc = "result"
    /\ outcome' = from_json(endpoint, payload)[1]
    /\ api_pc' = "done"
    /\ UNCHANGED <<callvars, threadvars, botvars, mediavars, partvars, endpoint, content, response, payload>>

NextAPI ==
    \/ Request
    \/ DecodeEnvelope
    \/ Validate
    \/ DecodeResult

SpecAPI == InitAPI /\ [][NextAPI]_vars

\* ------------------------------------------------------------------------
\* roboto/media.py.
\*
\* A str is held by its parts, Str(<<"test", ".jpg">>) being 'test.jpg', so
\* that a file name's extension and the name behind 'attach://' can be read
\* off it.

Str(parts) == <<"str", parts>>

\* pathlib.Path: its name attribute is the last component, a str.
Path(name) == <<"Path", name>>

\* A binary stream; name is MISSING for a stream without a name attribute
\* (io.BytesIO), the path for a file opened by path, and the descriptor, an
\* int, for a file opened from a descriptor (tempfile.TemporaryFile).
Stream(name) == <<"stream", name>>

\* api_types.py: FileDescription(binary_source, basename, mime_type).
FileDescription(binary_source, basename, mime_type) ==
    Instance("FileDescription", << Attr("binary_source", binary_source),
                                   Attr("basename", basename),
                                   Attr("mime_type", mime_type) >>)

\* api_types.py: InputMediaPhoto(media, caption).
InputMediaPhoto(input_file, caption) ==
    Instance("InputMediaPhoto", << Attr("media", input_file),
                                   Attr("caption", caption),
                                   Attr("type", Str(<<"photo">>)) >>)

\* dataclasses.replace(instance, name=value)
replace(instance, name, value) ==
    Instance(instance[2], SetItem(instance[3], name, value))

OctetStream == Str(<<"application/octet-stream">>)

\* mimetypes.guess_type(url)[0]: the type registered for the extension of
\* the name, None for an unknown or a missing extension; a url that is no
\* str (nor path-like) raises TypeError.
guess_type(url) ==
    IF url[1] # "str"
    THEN Raise("TypeError", "expected str, bytes or os.PathLike object")
    ELSE LET parts == url[2]
             ext == IF Len(parts) > 1 THEN parts[Len(parts)] ELSE ""
         IN  CASE ext = ".jpg" -> Str(<<"image/jpeg">>)
               [] ext = ".mp4" -> Str(<<"video/mp4">>)
               [] OTHER -> None

\* hasattr(input_file, 'name') and input_file.name
NameOf(input_file) ==
    CASE input_file[1] = "Path" -> input_file[2]
      [] input_file[1] = "stream" -> input_file[2]
      [] OTHER -> MISSING

\* media.py: get_mimetype
get_mimetype(input_file) ==
    IF NameOf(input_file) = MISSING
    THEN OctetStream
    ELSE LET mime_type == guess_type(NameOf(input_file))
         IN  IF IsRaise(mime_type) THEN mime_type
             ELSE IF mime_type = None THEN OctetStream
             ELSE mime_type

\* f'attached{uuid4()}', uuid being what uuid4() returned.
attach_name(uuid) == Str(<<"attached", uuid>>)

\* f'attach://{attach_name}'
attach_url(name) == Str(<<"attach://">> \o name[2])

\* The pair (media, file) extract_media returns; same tells whether media is
\* the very object that was passed in.
Extracted(media, same, file) == <<"pair", media, file, same>>

MediaOf(r) == r[2]

FileOf(r) == r[3]

SameObject(r) == r[4]

\* media.py: extract_media, uuid being what uuid4() returns if it is called.
\* The result names the media returned, whether it is the argument itself
\* (same) or a new object, and the file; or it is the raise.
extract_media(media, uuid) ==
    LET input_file == AttrOf(media, "media")
        new_media == replace(media, "media", attach_url(attach_name(uuid)))
    IN  IF input_file[1] = "str"
        THEN Extracted(media, TRUE, None)
        ELSE IF input_file[1] = "dataclass" /\ input_file[2] = "FileDescription"
        THEN Extracted(new_media, FALSE,
                       replace(input_file, "basename", attach_name(uuid)))
        ELSE IF IsRaise(get_mimetype(input_file))
        THEN get_mimetype(input_file)
        ELSE Extracted(new_media, FALSE,
                       FileDescription(input_file, attach_name(uuid),
                                       get_mimetype(input_file)))

\* {f.basename: f for f in files if f is not None}
RECURSIVE files_by_basename(_)
files_by_basename(files) ==
    IF files = <<>>
    THEN <<>>
    ELSE LET f == files[Len(files)]
             d == files_by_basename(SubSeq(files, 1, Len(files) - 1))
         IN  IF f = None THEN d ELSE SetItem(d, AttrOf(f, "basename"), f)

\* The tuple (medias, files) extract_medias returns.
PyTuple(a, b) == <<"tuple", a, b>>

\* The first of the results that is a raise, NoValue when none is.
FirstRaise(results) ==
    IF \E i \in 1..Len(results) : IsRaise(results[i])
    THEN results[CHOOSE i \in 1..Len(results) :
                    /\ IsRaise(results[i])
                    /\ \A k \in 1..(i - 1) : ~IsRaise(results[k])]
    ELSE NoValue

\* media.py: extract_medias, uuids[i] being what uuid4() returns in the call
\* for media[i].  zip(*[]) yields nothing, so that unpacking it into
\* `medias, files` raises ValueError for the empty sequence.
extract_medias(media, uuids) ==
    LET medias_and_files == [i \in 1..Len(media) |-> extract_media(media[i], uuids[i])]
    IN  IF FirstRaise(medias_and_files) # NoValue
        THEN FirstRaise(medias_and_files)
        ELSE IF medias_and_files = <<>>
        THEN Raise("ValueError", "not enough values to unpack (expected 2, got 0)")
        ELSE PyTuple([i \in 1..Len(media) |-> MediaOf(medias_and_files[i])],
                     files_by_basename([i \in 1..Len(media) |-> FileOf(medias_and_files[i])]))

\* The longest sequence of medias passed to extract_medias, and the number
\* of calls made.
MaxMedias == 2

MaxExtracts == 2

\* The values uuid4 can hand out.
UUIDs == {"uuid-1", "uuid-2", "uuid-3", "uuid-4"}

FileNames == {Str(<<"test", ".jpg">>), Str(<<"test">>)}

InputFiles ==
    {Str(<<"https://example.com/bla.jpg">>)}
    \cup {Path(n) : n \in FileNames}
    \cup {Stream(n) : n \in FileNames \cup {MISSING, PyInt(3)}}
    \cup {FileDescription(Path(Str(<<"test">>)), Str(<<"image", ".jpg">>), Str(<<"image/jpeg">>))}

InputMedias == {InputMediaPhoto(f, None) : f \in InputFiles}

\* The uuids a call draws: uuid4 never repeats a value.
Draws(n) ==
    {q \in SeqsUpTo(UUIDs \ issued, n) :
        /\ Len(q) = n
        /\ \A a, b \in 1..n : a # b => q[a] # q[b]}

\* The uuid the call for media used: uuid4 is not called for a str.
Used(media, uuid) == IF AttrOf(media, "media")[1] = "str" THEN {} ELSE {uuid}

InitMedia ==
    /\ CallsIdle("media")
    /\ APIIdle
    /\ MediaIdle
    /\ MultipartIdle
    /\ BotIdle

\* extract_media(m)
ExtractMedia ==
    /\ mcalls < MaxExtracts
    /\ \E m \in InputMedias :
         \E uuid \in UUIDs \ issued :
            /\ mcall' = "extract_media"
            /\ marg' = m
            /\ extracted' = extract_media(m, uuid)
            /\ issued' = issued \cup Used(m, uuid)
    /\ mcalls' = mcalls + 1
    /\ UNCHANGED <<callvars, threadvars, botvars, apivars, partvars>>

\* extract_medias(ms)
ExtractMedias ==
    /\ mcalls < MaxExtracts
    /\ \E ms \in SeqsUpTo(InputMedias, MaxMedias) :
         \E uuids \in Draws(Len(ms)) :
            /\ mcall' = "extract_medias"
            /\ marg' = ms
            /\ extracted' = extract_medias(ms, uuids)
            /\ issued' = issued \cup UNION {Used(ms[i], uuids[i]) : i \in 1..Len(ms)}
    /\ mcalls' = mcalls + 1
    /\ UNCHANGED <<callvars, threadvars, botvars, apivars, partvars>>

NextMedia ==
    \/ ExtractMedia
    \/ ExtractMedias

SpecMedia == InitMedia /\ [][NextMedia]_vars

\* ------------------------------------------------------------------------
\* Multipart requests: roboto/http_api.py and roboto/asks/multipart.py.

\* asks.multipart.MultipartData(binary_data, mime_type, basename), as
\* http_api.py constructs it.
MultipartData(binary_data, mime_type, basename) ==
    <<"MultipartData", binary_data, mime_type, basename>>

\* A mutation of _to_multipart_compatible: the basename is lost.
_to_multipart_compatible_unnamed(value) ==
    IF value[1] = "dataclass" /\ value[2] = "FileDescription"
    THEN MultipartData(AttrOf(value, "binary_source"),
                       AttrOf(value, "mime_type"), None)
    ELSE value

\* http_api.py: _to_multipart_compatible
_to_multipart_compatible(value) ==
    IF value[1] = "dataclass" /\ value[2] = "FileDescription"
    THEN MultipartData(AttrOf(value, "binary_source"),
                       AttrOf(value, "mime_type"), AttrOf(value, "basename"))
    ELSE value

\* http_api.py: _multipart_request_from_dict, the fields it hands to
\* session.request:
\*   {k: _to_multipart_compatible(v) for k, v in body.items() if v is not None}
multipart_fields(body) ==
    LET kept == SelectSeq(body, LAMBDA it : it[2] # None)
    IN  [i \in 1..Len(kept) |-> <<kept[i][1], _to_multipart_compatible(kept[i][2])>>]

\* dict(ChainMap(first, second)): the keys of second and then the new keys
\* of first, each with the value of the first map that holds it.
ChainMap(first, second) ==
    LET keys == second \o SelectSeq(first, LAMBDA it : ~HasKey(second, it[1]))
    IN  [i \in 1..Len(keys) |->
            <<keys[i][1], IF HasKey(first, keys[i][1])
                          THEN GetItem(first, keys[i][1])
                          ELSE GetItem(second, keys[i][1])>>]

\* A bytes object, held by what it was read from or what it spells.
Bytes(b) == <<"bytes", b>>

\* The content of the file at path, which open(path, 'rb').read() returns.
file_bytes(path) == Bytes(<<"file", path[2]>>)

\* value.read() of a stream.
stream_bytes(stream) == Bytes(<<"stream", stream[2]>>)

\* str(value).encode(encoding)
str_encode(value) == Bytes(<<"str()", value>>)

\* asks/multipart.py: PathMultipartData, BytesMultipartData, IOMultipartData
PathMultipartData(path, mime_type, basename) ==
    <<"PathMultipartData", path, mime_type, basename>>

BytesMultipartData(binary_data, mime_type, basename) ==
    <<"BytesMultipartData", binary_data, mime_type, basename>>

IOMultipartData(binary_data, mime_type, basename) ==
    <<"IOMultipartData", binary_data, mime_type, basename>>

\* hasattr(value, 'read')
HasRead(value) == value[1] = "stream"

\* asks/multipart.py: _file_like_to_multipart_data, the triple
\* (file_bytes, mime_type, file_basename) or the raise.
_file_like_to_multipart_data(value) ==
    CASE value[1] = "Path" ->
            <<file_bytes(value), guess_type(value[2]), value[2]>>
      [] HasRead(value) ->
            IF value[2] = MISSING
            THEN Raise("AttributeError", "object has no attribute 'name'")
            ELSE IF value[2][1] # "str"
            THEN <<stream_bytes(value), None, None>>
            ELSE <<stream_bytes(value), guess_type(value[2]), value[2]>>
      [] value[1] = "PathMultipartData" ->
            <<file_bytes(value[2]), value[3], value[4]>>
      [] value[1] = "BytesMultipartData" ->
            <<value[2], value[3], value[4]>>
      [] value[1] = "IOMultipartData" ->
            <<stream_bytes(value[2]), value[3], value[4]>>
      [] OTHER ->
            Raise("TypeError", "value should be of type Path, PathMultipartData, BytesMultipartData, IOMultipartData, or provide a read method.")

\* asks/multipart.py: _to_multipart_form_data.  The isinstance test names
\* Path, BytesMultipartData and IOMultipartData.
_to_multipart_form_data(value) ==
    IF value[1] \in {"Path", "BytesMultipartData", "IOMultipartData"} \/ HasRead(value)
    THEN LET data == _file_like_to_multipart_data(value)
         IN  IF IsRaise(data)
             THEN data
             ELSE <<data[1], IF data[2] = None THEN OctetStream ELSE data[2], data[3]>>
    ELSE <<str_encode(value), None, None>>

\* The bodies of the requests, after SendAudioRequest (request_types.py): a
\* file and a thumb, each given as a FileDescription, a Path or a URL, and
\* optional fields that may be None.
BodyFiles ==
    {FileDescription(Path(Str(<<"test", ".jpg">>)), Str(<<"image", ".jpg">>),
                     Str(<<"image/jpeg">>)),
     FileDescription(Stream(MISSING), Str(<<"attached", "uuid-1">>), OctetStream),
     Path(Str(<<"test", ".jpg">>)),
     Str(<<"https://example.com/bla.jpg">>)}

Bodies ==
    {<< <<"chat_id", PyInt(1)>>, <<"audio", f>>, <<"caption", c>>, <<"thumb", t>> >> :
        f \in BodyFiles, c \in {None, Str(<<"text">>)},
        t \in {None} \cup BodyFiles}

\* The attachments of a request, by name; "thumb" is a name the body holds
\* too.
Attachments ==
    {<<>>}
    \cup {<< <<n, f>> >> : n \in {"attacheduuid-1", "thumb"},
                            f \in {x \in BodyFiles : x[1] = "dataclass"}}
    \cup {<< <<"attacheduuid-1", f>>, <<"thumb", f>> >> :
                            f \in {x \in BodyFiles : x[1] = "dataclass"}}

\* The values handed to _to_multipart_form_data.
MimeTypes == {OctetStream, Str(<<"image/jpeg">>), None}

Basenames == {None, Str(<<"image", ".jpg">>)}

FormValues ==
    {Path(n) : n \in FileNames}
    \cup {Stream(n) : n \in FileNames \cup {MISSING, PyInt(3)}}
    \cup {PathMultipartData(Path(Str(<<"test">>)), m, b) : m \in MimeTypes, b \in Basenames}
    \cup {BytesMultipartData(Bytes("data"), m, b) : m \in MimeTypes, b \in Basenames}
    \cup {IOMultipartData(Stream(MISSING), m, b) : m \in MimeTypes, b \in Basenames}
    \cup {PyInt(1), PyBool(TRUE), Str(<<"text">>), Bytes("data")}

\* The operations share no state: a behaviour follows one of them.
InitMultipart ==
    /\ CallsIdle("multipart")
    /\ APIIdle
    /\ MediaIdle
    /\ MultipartIdle
    /\ BotIdle

\* make_multipart_request -> _multipart_request(session, method, api_method,
\* body): the fields of body.__dict__ go to session.request.
MultipartRequest ==
    /\ mp_op = "none"
    /\ \E body \in Bodies :
          /\ mp_body' = body
          /\ mp_sent' = multipart_fields(body)
    /\ mp_op' = "request"
    /\ UNCHANGED <<callvars, threadvars, botvars, apivars, mediavars, mp_att, mp_value, mp_data>>

\* make_multipart_request_with_attachments(session, api_method, body,
\* attachments), up to the request.
MultipartRequestWithAttachments ==
    /\ mp_op = "none"
    /\ \E body \in Bodies, attachments \in Attachments :
          /\ mp_body' = body
          /\ mp_att' = attachments
          /\ mp_sent' = multipart_fields(ChainMap(body, attachments))
    /\ mp_op' = "attachments"
    /\ UNCHANGED <<callvars, threadvars, botvars, apivars, mediavars, mp_value, mp_data>>

\* multipart_blocks: _to_multipart_form_data(v, encoding) for a field's
\* value.
ToMultipartFormData ==
    /\ mp_op = "none"
    /\ \E value \in FormValues :
          /\ mp_value' = value
          /\ mp_data' = _to_multipart_form_data(value)
    /\ mp_op' = "form_data"
    /\ UNCHANGED <<callvars, threadvars, botvars, apivars, mediavars, mp_body, mp_att, mp_sent>>

NextMultipart ==
    \/ MultipartRequest
    \/ MultipartRequestWithAttachments
    \/ ToMultipartFormData

SpecMultipart == InitMultipart /\ [][NextMultipart]_vars

\* ------------------------------------------------------------------------
\* bot_tester/__main__.py: run_bot, and the server behind get_updates.

\* The number of get_updates calls followed and of updates the server
\* receives.
MaxPolls == 3

MaxUpdates == 3

\* An Update, of which run_bot reads the update_id.
Update(id) == [update_id |-> id]

\* What the server may answer to getUpdates with the given offset: the
\* updates it holds from that update_id on, in increasing order, or the
\* first few of them.
Batches(from) ==
    LET first == IF from < 1 THEN 1 ELSE from
        held == IF next_id > first THEN next_id - first ELSE 0
    IN  {[i \in 1..n |-> Update(first + i - 1)] : n \in 0..held}

\* A mutation of next_offset: the offset is set to the last update_id.
next_offset_last(current, batch) ==
    IF batch # <<>> THEN batch[Len(batch)].update_id ELSE current

\* run_bot: `if updates: offset = updates[-1].update_id + 1`, the value of
\* offset after the statement.
next_offset(current, batch) ==
    IF batch # <<>> THEN batch[Len(batch)].update_id + 1 ELSE current

InitBot ==
    /\ CallsIdle("bot")
    /\ APIIdle
    /\ MediaIdle
    /\ MultipartIdle
    /\ bot_pc = "poll"
    /\ offset = 0
    /\ updates = <<>>
    /\ upd_i = 0
    /\ handled = <<>>
    /\ requested = <<>>
    /\ received = <<>>
    /\ next_id = 1

\* A user sends the bot something: the server holds one more update.
Arrive ==
    /\ next_id <= MaxUpdates
    /\ next_id' = next_id + 1
    /\ UNCHANGED <<callvars, threadvars, apivars, mediavars, partvars,
                   bot_pc, offset, updates, upd_i, handled, requested, received>>

\* updates = await bot.get_updates(offset)
GetUpdates ==
    /\ bot_pc = "poll"
    /\ Len(requested) < MaxPolls
    /\ \E batch \in Batches(offset) :
          /\ updates' = batch
          /\ received' = received \o batch
    /\ requested' = Append(requested, offset)
    /\ upd_i' = 1
    /\ bot_pc' = "handle"
    /\ UNCHANGED <<callvars, threadvars, apivars, mediavars, partvars,
                   offset, handled, next_id>>

\* for update in updates: await handler(bot, update), the handler returning
Handle ==
    /\ bot_pc = "handle"
    /\ upd_i <= Len(updates)
    /\ handled' = Append(handled, updates[upd_i])
    /\ upd_i' = upd_i + 1
    /\ UNCHANGED <<callvars, threadvars, apivars, mediavars, partvars,
                   bot_pc, offset, updates, requested, received, next_id>>

\* await handler(bot, update), the handler raising: the exception leaves
\* run_bot.
HandlerRaises ==
    /\ bot_pc = "handle"
    /\ upd_i <= Len(updates)
    /\ handled' = Append(handled, updates[upd_i])
    /\ bot_pc' = "raised"
    /\ UNCHANGED <<callvars, threadvars, apivars, mediavars, partvars,
                   offset, updates, upd_i, requested, received, next_id>>

\* The for loop is exhausted: `if updates: offset = ...`, and back to the
\* head of the while loop.
Advance ==
    /\ bot_pc = "handle"
    /\ upd_i > Len(updates)
    /\ offset' = next_offset(offset, updates)
    /\ bot_pc' = "poll"
    /\ UNCHANGED <<callvars, threadvars, apivars, mediavars, partvars,
                   updates, upd_i, handled, requested, received, next_id>>

NextBot ==
    \/ Arrive
    \/ GetUpdates
    \/ Handle
    \/ HandlerRaises
    \/ Advance

SpecBot == InitBot /\ [][NextBot]_vars

\* ------------------------------------------------------------------------
\* The properties.
\* ------------------------------------------------------------------------

\* The caller has made exactly one from_json call, on j0.
DecodedOnce == phase = "decoded" /\ calls = 1

\* The caller has decoded the Object j0 against a dataclass.
DecodedObject ==
    DecodedOnce /\ schema_class[1] = "dataclass" /\ j0[1] = "dict"

\* The key a field has on the wire.
WireName(f) == IF f.rename # "" THEN f.rename ELSE f.name

\* What decoding the Object's value for field f against f's type yields.
SubDecode(cls, f, d) ==
    from_json(field_type(cls, f.name), GetItem(d[2], WireName(f)))[1]

\* A field the constructor cannot do without: spec section 3 excludes
\* Optional fields.
\* The type a field declares, whether spelled as a string or not.
DeclaredType(f) == IF f.type[1] = "annotation" THEN f.type[2] ELSE f.type

Required(f) == f.default = MISSING /\ DeclaredType(f)[1] # "Optional"

IsDecodeError(r) == IsRaise(r) /\ r[2] = "JSONConversionError"

TypeMismatch == JSONConversionError(PrimitiveIntoNonPrimitive)

MissingRequiredValue == JSONConversionError(NoneIntoNonOptional)

\* C1: round trip -- encoding a well-typed dataclass instance succeeds and
\* decoding the encoded value against the instance's class gives back an
\* instance equal to the original.
C1_RoundTrip ==
    /\ (phase = "encoded" /\ obj \in WellTypedInstances) => ~IsRaise(ret)
    /\ (phase = "roundtrip" /\ obj \in WellTypedInstances) => ret = obj

\* C2: to_json keys every field it emits by the field's wire name: a field
\* that holds a value appears under its wire name, and the identifier of a
\* renamed field is no key of the output.
C2_EncodeKeysByWireName ==
    (phase = "encoded" /\ obj[1] = "dataclass" /\ ~IsRaise(ret)) =>
        \A i \in 1..Len(fields(obj[2])) :
            LET f == fields(obj[2])[i]
            IN  /\ obj[3][i][2] # None => HasKey(ret[2], WireName(f))
                /\ f.rename # "" => ~HasKey(ret[2], f.name)

RECURSIVE NoNullValue(_)
NoNullValue(w) ==
    CASE w[1] = "dict" ->
            \A i \in 1..Len(w[2]) : w[2][i][2] # None /\ NoNullValue(w[2][i][2])
      [] w[1] = "list" -> \A i \in 1..Len(w[2]) : NoNullValue(w[2][i])
      [] OTHER -> TRUE

\* The wire value w has one item per field of o that is not None, in field
\* order, at every depth.
RECURSIVE KeepsPresent(_, _)
KeepsPresent(o, w) ==
    CASE o[1] \in {"dataclass", "dict"} ->
            LET attrs == IF o[1] = "dataclass" THEN o[3] ELSE o[2]
                held == SelectSeq(attrs, LAMBDA a : a[2] # None)
            IN  /\ w[1] = "dict"
                /\ Len(w[2]) = Len(held)
                /\ \A i \in 1..Len(held) : KeepsPresent(held[i][2], w[2][i][2])
      [] o[1] = "list" ->
            /\ w[1] = "list"
            /\ Len(w[2]) = Len(o[2])
            /\ \A i \in 1..Len(o[2]) : KeepsPresent(o[2][i], w[2][i])
      [] OTHER -> TRUE

\* C4: the value to_json returns maps no Object key to Null, at any depth:
\* a field that is None is left out of the Object of its record, and every
\* field that is not None is kept.
C4_AbsentFieldsOmitted ==
    (phase = "encoded" /\ ~IsRaise(ret)) => NoNullValue(ret) /\ KeepsPresent(obj, ret)

\* C4 witness: an InlineQuery without location, whose user has no last_name,
\* has been encoded.
C4_Witness ==
    /\ phase = "encoded"
    /\ obj \in InlineQueryInstances
    /\ AttrOf(obj, "location") = None
    /\ AttrOf(AttrOf(obj, "from_"), "last_name") = None
    /\ ret[1] = "dict"

\* C5: decoding an Object that lacks the wire key of a required field raises
\* the engine's decode error.
C5_MissingRequiredRaisesDecodeError ==
    (/\ DecodedObject
     /\ \E i \in 1..Len(fields(schema_class[2])) :
            /\ Required(fields(schema_class[2])[i])
            /\ ~HasKey(j0[2], WireName(fields(schema_class[2])[i])))
        => IsDecodeError(ret)

\* C6: an Optional field is never required -- when every item the Object
\* has decodes and only Optional fields (or fields with a default) are
\* missing from it, the decode succeeds and each missing Optional field
\* holds None.
C6_OptionalFieldNeverRequired ==
    DecodedObject =>
        LET cls == schema_class[2]
            fs == fields(cls)
            present(i) == HasKey(j0[2], WireName(fs[i]))
        IN  (\A i \in 1..Len(fs) :
                IF present(i)
                THEN ~IsRaise(SubDecode(cls, fs[i], j0))
                ELSE DeclaredType(fs[i])[1] = "Optional" \/ fs[i].default # MISSING)
            => /\ ~IsRaise(ret)
               /\ \A i \in 1..Len(fs) :
                    (DeclaredType(fs[i])[1] = "Optional" /\ ~present(i)
                        /\ ~HasKey(j0[2], fs[i].name))
                    => AttrOf(ret, fs[i].name) = None

\* C7: from_json(Optional[U], None) returns None; from_json(T, None) raises
\* the decode error for a T that is neither Optional nor Any; and
\* from_json(Optional[U], v) is from_json(U, v) for a v that is not None.
C7_OptionalAndNull ==
    DecodedOnce =>
        /\ (j0 = None /\ schema_class[1] = "Optional") => ret = None
        /\ (j0 = None /\ schema_class[1] # "Optional" /\ schema_class # Any)
                => ret = MissingRequiredValue
        /\ (j0 # None /\ schema_class[1] = "Optional")
                => ret = from_json(schema_class[2], j0)[1]

\* C8: from_json against int or float takes a Number of either kind and
\* returns the requested kind: an int read as float is the float of equal
\* value, a float read as int is an int (the float's value when it is
\* integral, else the value cut towards zero), a Number of the requested
\* kind is returned as it is.
C8_NumbersConvert ==
    (DecodedOnce /\ schema_class \in {int, float} /\ j0[1] \in {"int", "float"}) =>
        /\ schema_class = int =>
            /\ ret[1] = "int"
            /\ j0[1] = "int" => ret = j0
            /\ j0[1] = "float" =>
                \/ 2 * ret[2] = j0[2]
                \/ j0[2] % 2 = 1 /\ j0[2] > 0 /\ 2 * ret[2] = j0[2] - 1
                \/ j0[2] % 2 = 1 /\ j0[2] < 0 /\ 2 * ret[2] = j0[2] + 1
        /\ schema_class = float =>
            /\ ret[1] = "float"
            /\ j0[1] = "float" => ret = j0
            /\ j0[1] = "int" => ret[2] = 2 * j0[2]

\* C8 witness: 1.5 has been decoded against int, giving 1.
C8_Witness ==
    DecodedOnce /\ schema_class = int /\ j0 = PyFloat(3) /\ ret = PyInt(1)

\* C9: from_json against str succeeds only for a str and against bool only
\* for a bool, and returns the value itself; a Number against str or bool
\* and a str against int raise the decode error TypeMismatch.
C9_StrBoolExact ==
    DecodedOnce =>
        /\ schema_class = str =>
            IF j0[1] = "str" THEN ret = j0 ELSE IsDecodeError(ret)
        /\ schema_class = bool =>
            IF j0[1] = "bool" THEN ret = j0 ELSE IsDecodeError(ret)
        /\ (schema_class \in {str, bool} /\ j0[1] \in {"int", "float"})
                => ret = TypeMismatch
        /\ (schema_class = int /\ j0[1] = "str") => ret = TypeMismatch

\* C9 witness: the Number 1 has been decoded against bool and the call
\* raised TypeMismatch.
C9_Witness ==
    DecodedOnce /\ schema_class = bool /\ j0 = PyInt(1) /\ ret = TypeMismatch

\* C10: from_json(Any, v) and from_json(Optional[Any], v) return v itself
\* for every v, None included (the Any rule comes before the None rule);
\* the elements of a List[Any] and a dataclass field typed Any receive the
\* raw value, with no decoding.
C10_AnyUnconverted ==
    DecodedOnce =>
        /\ schema_class \in {Any, Optional(Any)} => ret = j0 /\ j = j0
        /\ (schema_class = List(Any) /\ j0[1] = "list") => ret = j0 /\ j = j0
        /\ (schema_class[1] = "dataclass" /\ j0[1] = "dict" /\ ~IsRaise(ret)) =>
            \A i \in 1..Len(fields(schema_class[2])) :
                LET f == fields(schema_class[2])[i]
                IN  (resolve_type(DeclaredType(f)) = Any /\ HasKey(j0[2], WireName(f)))
                        => AttrOf(ret, f.name) = GetItem(j0[2], WireName(f))
        /\ (schema_class = Dataclass("_SmallDummyType") /\ j0[1] = "dict"
                /\ HasKey(j0[2], "a"))
                => ~IsRaise(ret)

\* C10 witness: an Object whose item b is itself an Object has been decoded
\* against _SmallDummyType, and field b holds that Object.
C10_Witness ==
    /\ DecodedOnce
    /\ schema_class = Dataclass("_SmallDummyType")
    /\ j0[1] = "dict"
    /\ HasKey(j0[2], "b")
    /\ GetItem(j0[2], "b") = PyDict(<< <<"from", None>> >>)
    /\ ~IsRaise(ret)
    /\ AttrOf(ret, "b") = PyDict(<< <<"from", None>> >>)

\* C11: a NewType alias is transparent -- from_json against the alias gives
\* what from_json against the alias's underlying type gives for the same
\* wire value (the alias-wrapped value is that value itself at run time),
\* and to_json of an alias-typed field is to_json of the underlying value.
C11_AliasTransparent ==
    /\ (DecodedOnce /\ schema_class[1] = "NewType") =>
            ret = from_json(original_type(schema_class), j0)[1]
    /\ (phase = "encoded" /\ obj \in UserInstances) =>
            /\ ~IsRaise(ret)
            /\ GetItem(ret[2], "id") = to_json(AttrOf(obj, "id"))

\* The member names of the declared enums.
EnumMembers == {"A", "B"}

\* C12: from_json against an Enum class returns, for an int or str that is
\* the value of a member, that member; for an int or str that is the value
\* of no member it raises the decode error TypeMismatch.
C12_EnumDecodesToMember ==
    (DecodedOnce /\ schema_class[1] = "Enum" /\ j0[1] \in {"int", "str"}) =>
        IF \E m \in EnumMembers : EnumValue(schema_class[2], m) = j0
        THEN ret[1] = "enum" /\ ret[2] = schema_class[2]
                /\ EnumValue(ret[2], ret[3]) = j0
        ELSE ret = TypeMismatch

\* C13: to_json of an Enum member returns the member's value, an int or a
\* str; a dataclass field that holds a member is emitted with the member's
\* value as its entry.
C13_EnumEncodesValue ==
    phase = "encoded" =>
        /\ obj[1] = "enum" =>
            /\ ret = EnumValue(obj[2], obj[3])
            /\ ret[1] \in {"int", "str"}
        /\ obj[1] = "dataclass" =>
            \A i \in 1..Len(obj[3]) :
                obj[3][i][2][1] = "enum" =>
                    /\ ~IsRaise(ret)
                    /\ HasKey(ret[2], obj[3][i][1])
                    /\ GetItem(ret[2], obj[3][i][1]) =
                            EnumValue(obj[3][i][2][2], obj[3][i][2][3])

\* C13 witness: _HasEnumMembers(_MyEnum.B, _StrEnum.B) has been encoded to
\* {'x': 2, 'y': 'other'}.
C13_Witness ==
    /\ phase = "encoded"
    /\ obj = Instance("_HasEnumMembers", << Attr("x", Member("_MyEnum", "B")),
                                            Attr("y", Member("_StrEnum", "B")) >>)
    /\ ret = PyDict(<< <<"x", PyInt(2)>>, <<"y", PyStr("other")>> >>)

\* The Object d without the items whose key is the wire name of no field of
\* the dataclass cls.
WithoutUnknownKeys(cls, d) ==
    PyDict(SelectSeq(d[2],
                     LAMBDA it : \E i \in 1..Len(fields(cls)) :
                                    WireName(fields(cls)[i]) = it[1]))

\* C14: from_json of an Object against a dataclass ignores the keys that
\* are the wire name of no field -- the call returns (or raises) what it
\* returns for the Object without those keys.
C14_UnknownKeysIgnored ==
    DecodedObject =>
        ret = from_json(schema_class, WithoutUnknownKeys(schema_class[2], j0))[1]

\* C15: from_json(List[T], a) of an Array a returns the list of the same
\* length whose i-th element is from_json(T, a[i]), in a's order, when all
\* elements decode, and raises when one does not; the empty Array gives the
\* empty list; T may be a dataclass.
C15_ListElementwise ==
    (DecodedOnce /\ schema_class[1] = "List" /\ j0[1] = "list") =>
        LET a == j0[2]
            each == [i \in 1..Len(a) |-> from_json(schema_class[2], a[i])[1]]
        IN  /\ (\A i \in 1..Len(a) : ~IsRaise(each[i])) => ret = PyList(each)
            /\ (\E i \in 1..Len(a) : IsRaise(each[i])) => IsRaise(ret)
            /\ a = <<>> => ret = PyList(<<>>)

\* C15 witness: an Array of two different Location Objects has been decoded
\* against List[Location] into the two different instances, in order.
C15_Witness ==
    /\ DecodedOnce
    /\ schema_class = List(Dataclass("Location"))
    /\ j0[1] = "list"
    /\ Len(j0[2]) = 2
    /\ ret[1] = "list"
    /\ Len(ret[2]) = 2
    /\ ret[2][1] # ret[2][2]
    /\ ret[2][1] = from_json(Dataclass("Location"), j0[2][1])[1]
    /\ ret[2][1][1] = "dataclass"

\* C16: from_json raises the decode error whenever the kind of the wire
\* value and the kind of the target type (Optional and alias set aside)
\* disagree: an Object against a type that is no dataclass, an Array against
\* a type that is no List, a scalar against a dataclass or a List, and a
\* value of no wire kind against any type but Any.
C16_KindMismatchRaisesDecodeError ==
    (DecodedOnce /\ resolve_type(schema_class) # Any) =>
        LET target == resolve_type(schema_class)
        IN  /\ (j0[1] = "dict" /\ target[1] # "dataclass") => IsDecodeError(ret)
            /\ (j0[1] = "list" /\ target[1] # "List") => IsDecodeError(ret)
            /\ (j0[1] \in {"bool", "int", "float", "str"}
                    /\ target[1] \in {"dataclass", "List"}) => IsDecodeError(ret)
            /\ j0 = <<"set">> => IsDecodeError(ret)

\* The error to_json raises for a value it has no rule for.
SerializationError == JSONConversionError(FailedToTurn)

\* v is no primitive, None, dict, dataclass instance, list or Enum member.
NoRuleFor(v) == v[1] \in {"object", "set"}

RECURSIVE HoldsNoRuleValue(_)
\* v is, or holds in a list element, a dict value or a dataclass field at
\* any depth, a value to_json has no rule for.
HoldsNoRuleValue(v) ==
    CASE NoRuleFor(v) -> TRUE
      [] v[1] = "list" -> \E i \in 1..Len(v[2]) : HoldsNoRuleValue(v[2][i])
      [] v[1] = "dict" -> \E i \in 1..Len(v[2]) : HoldsNoRuleValue(v[2][i][2])
      [] v[1] = "dataclass" -> \E i \in 1..Len(v[3]) : HoldsNoRuleValue(v[3][i][2])
      [] OTHER -> FALSE

\* C17: to_json returns an int, float, str or bool as it is, a dataclass
\* instance as an Object and a list as the Array of its elements' encodings
\* in order, and raises SerializationError for a value it has no rule for,
\* be the value the argument itself, a list element or a dataclass field.
C17_EncodeRulesAndSerializationError ==
    phase = "encoded" =>
        /\ obj[1] \in {"int", "float", "str", "bool"} => ret = obj
        /\ (obj[1] = "dataclass" /\ ~HoldsNoRuleValue(obj)) => ret[1] = "dict"
        /\ (obj[1] = "list" /\ ~HoldsNoRuleValue(obj)) =>
                ret = PyList([i \in 1..Len(obj[2]) |-> to_json(obj[2][i])])
        /\ HoldsNoRuleValue(obj) => ret = SerializationError

\* C18: from_json leaves its input alone -- after the call has returned or
\* raised, the caller's wire value, with everything nested in it, is what
\* it was before the call.
C18_InputUnchanged ==
    DecodedOnce => j = j0

\* All threads' calls have ended.
AllDone == \A th \in Threads : pc[th] = "done"

\* C19: when the threads call from_json at the same time on one shared
\* Object that a single call decodes, then, however their steps interleave,
\* every call returns, and returns the instance the single call returns.
C19_ConcurrentDecodeSafe ==
    (AllDone /\ ~IsRaise(from_json(schema_class, j0)[1])) =>
        \A th \in Threads : result[th] = from_json(schema_class, j0)[1]

\* The dataclass has a field whose annotation names a type that is not
\* defined.
HasUnresolvedField(cls) ==
    \E i \in 1..Len(fields(cls)) : IsRaise(field_type(cls, fields(cls)[i].name))

\* C20: a field annotation that names an undefined type is found before any
\* from_json call is served -- no from_json call against a dataclass with
\* such a field returns an instance, whichever keys the Object has, and no
\* from_json call is the one that reports the undefined name.
C20_UnresolvedTypeFoundBeforeDecode ==
    (DecodedObject /\ HasUnresolvedField(schema_class[2])) =>
        /\ IsRaise(ret)
        /\ ret[2] # "NameError"

\* What decoding the Object's value for field f yields, a name the field's
\* annotation fails to resolve included.
SubResult(cls, f, d) ==
    IF IsRaise(field_type(cls, f.name))
    THEN field_type(cls, f.name)
    ELSE SubDecode(cls, f, d)

\* C22: from_json has no partial mode -- it returns a complete value or
\* raises.  When an element of an Array does not decode, the call raises
\* that element's error and returns no shortened list; when the value under
\* a field's wire name does not decode, the call raises the error of such a
\* field and returns no instance; an instance that is returned holds every
\* field of its class.  Elements and fields are decoded by from_json
\* itself, so this carries to any depth.
C22_NoPartialDecode ==
    DecodedOnce =>
        /\ (schema_class[1] = "List" /\ j0[1] = "list") =>
            LET each == [i \in 1..Len(j0[2]) |-> from_json(schema_class[2], j0[2][i])[1]]
                failed == {i \in 1..Len(j0[2]) : IsRaise(each[i])}
            IN  /\ failed # {} => ret \in {each[i] : i \in failed}
                /\ ~IsRaise(ret) => ret[1] = "list" /\ Len(ret[2]) = Len(j0[2])
        /\ (schema_class[1] = "dataclass" /\ j0[1] = "dict") =>
            LET cls == schema_class[2]
                fs == fields(cls)
                failed == {i \in 1..Len(fs) :
                              /\ HasKey(j0[2], WireName(fs[i]))
                              /\ IsRaise(SubResult(cls, fs[i], j0))}
            IN  /\ failed # {} => ret \in {SubResult(cls, fs[i], j0) : i \in failed}
                /\ ~IsRaise(ret) =>
                    /\ ret[1] = "dataclass"
                    /\ [i \in 1..Len(ret[3]) |-> ret[3][i][1]] =
                            [i \in 1..Len(fs) |-> fs[i].name]

\* C22 witness: a PollAnswer Object whose option_ids Array holds an element
\* that is no int has been decoded, and the call raised that element's
\* error.
C22_Witness ==
    /\ DecodedObject
    /\ schema_class = Dataclass("PollAnswer")
    /\ HasKey(j0[2], "option_ids")
    /\ GetItem(j0[2], "option_ids") = PyList(<<PyInt(1), PyStr("text")>>)
    /\ ret = from_json(int, PyStr("text"))[1]
    /\ ret = TypeMismatch

\* The caller has made a second from_json call on the Object it decoded
\* before, against the same dataclass.
DecodedTwice ==
    phase = "decoded" /\ calls = 2 /\ schema_class[1] = "dataclass" /\ j0[1] = "dict"

\* C27: decoding is repeatable -- when from_json has returned an instance
\* for an Object, a second from_json call on the same Object against the
\* same dataclass returns an instance equal to the first.
C27_RepeatedDecodeStable ==
    (DecodedTwice /\ ~IsRaise(prev)) => ret = prev

\* C27 witness: an InlineQuery Object with the renamed key 'from' and a
\* nested User has been decoded twice; the first call rewrote the key, and
\* the second call returned an instance equal to the first.
C27_Witness ==
    /\ DecodedTwice
    /\ schema_class = Dataclass("InlineQuery")
    /\ HasKey(j0[2], "from")
    /\ ~HasKey(j[2], "from")
    /\ prev[1] = "dataclass"
    /\ AttrOf(prev, "from_")[1] = "dataclass"
    /\ ret = prev

\* C28: an Optional or NewType wrapper does not change how a number is
\* decoded -- from_json against Optional[int], Optional[float] or an alias
\* over int or float, given a Number of the other kind (a float for int, an
\* int for float), returns what from_json against the bare int or float
\* returns, a value of that kind.
C28_NumberKindIgnoresWrappers ==
    (DecodedOnce /\ schema_class[1] \in {"Optional", "NewType"}
        /\ resolve_type(schema_class) \in {int, float}
        /\ j0[1] \in {"int", "float"}
        /\ j0[1] # resolve_type(schema_class)[2]) =>
            /\ ret = from_json(resolve_type(schema_class), j0)[1]
            /\ ret[1] = resolve_type(schema_class)[2]

\* C29: Bool and Number are kept apart in both directions -- from_json
\* against int or float raises TypeMismatch for True and False, as from_json
\* against bool does for an int or a float.
C29_BoolIsNoNumber ==
    DecodedOnce =>
        /\ (schema_class \in {int, float} /\ j0[1] = "bool") => ret = TypeMismatch
        /\ (schema_class = bool /\ j0[1] \in {"int", "float"}) => ret = TypeMismatch

\* The member of the answered envelope named k, None when the server left
\* it out.
EnvelopeMember(k) ==
    IF HasKey(content[2], k) THEN GetItem(content[2], k) ELSE None

GuessedOrOctetStream(input_file) ==
    IF NameOf(input_file) = MISSING \/ NameOf(input_file)[1] # "str"
    THEN OctetStream
    ELSE IF guess_type(NameOf(input_file)) = None
         THEN OctetStream
         ELSE guess_type(NameOf(input_file))

IsFileDescription(v) == v[1] = "dataclass" /\ v[2] = "FileDescription"

\* C23: extract_media returns the very same media object and no file when
\* media.media is a str; otherwise it returns a copy whose media is
\* 'attach://' followed by a name made from a uuid of this call, and a
\* FileDescription whose basename is that name and whose mime_type is that
\* of a supplied FileDescription, or the guessed type (application/
\* octet-stream when unknown) for a Path or stream.
C23_ExtractMedia ==
    mcall = "extract_media" =>
        LET input_file == AttrOf(marg, "media")
        IN  IF input_file[1] = "str"
            THEN extracted = Extracted(marg, TRUE, None)
            ELSE \E uuid \in issued :
                    /\ ~IsRaise(extracted)
                    /\ ~SameObject(extracted)
                    /\ MediaOf(extracted) =
                          replace(marg, "media", attach_url(attach_name(uuid)))
                    /\ IsFileDescription(FileOf(extracted))
                    /\ AttrOf(FileOf(extracted), "basename") = attach_name(uuid)
                    /\ AttrOf(FileOf(extracted), "mime_type") =
                          IF IsFileDescription(input_file)
                          THEN AttrOf(input_file, "mime_type")
                          ELSE GuessedOrOctetStream(input_file)

\* The medias of a sequence whose content is not a str.
FileMedias(ms) == {i \in 1..Len(ms) : AttrOf(ms[i], "media")[1] # "str"}

\* The attachment name that follows 'attach://' in a media.
AttachedName(media) == Str(Tail(AttrOf(media, "media")[2]))

\* C24: for every sequence of medias, the empty one included, extract_medias
\* returns a media list of the length and order of its input and a file map
\* with exactly one entry per media whose content is not a str, keyed by the
\* attachment name that follows 'attach://' in that media, each entry's
\* basename being its key.
C24_ExtractMedias ==
    mcall = "extract_medias" =>
        /\ ~IsRaise(extracted)
        /\ Len(extracted[2]) = Len(marg)
        /\ \A i \in 1..Len(marg) :
              IF i \in FileMedias(marg)
              THEN /\ AttrOf(extracted[2][i], "media")[2][1] = "attach://"
                   /\ extracted[2][i] =
                         replace(marg[i], "media", AttrOf(extracted[2][i], "media"))
              ELSE extracted[2][i] = marg[i]
        /\ Len(extracted[3]) = Cardinality(FileMedias(marg))
        /\ Keys(extracted[3]) = {AttachedName(extracted[2][i]) : i \in FileMedias(marg)}
        /\ \A n \in 1..Len(extracted[3]) :
              AttrOf(extracted[3][n][2], "basename") = extracted[3][n][1]

\* The value of the field named k in the union of body and attachments, the
\* body's value when both hold the name.
UnionValue(body, attachments, k) ==
    IF HasKey(body, k) THEN GetItem(body, k) ELSE GetItem(attachments, k)

\* The fields sent are exactly those of names whose value is not None, a
\* FileDescription converted to MultipartData(binary_source, mime_type,
\* basename) and any other value as it is.
SentExactly(names, body, attachments) ==
    /\ Len(mp_sent) = Cardinality(Keys(mp_sent))
    /\ Keys(mp_sent) = {k \in names : UnionValue(body, attachments, k) # None}
    /\ \A k \in Keys(mp_sent) :
          LET v == UnionValue(body, attachments, k)
          IN  GetItem(mp_sent, k) =
                 IF IsFileDescription(v)
                 THEN MultipartData(AttrOf(v, "binary_source"),
                                    AttrOf(v, "mime_type"), AttrOf(v, "basename"))
                 ELSE v

\* C25: a multipart request sends exactly the body fields whose value is not
\* None, each FileDescription converted to MultipartData(binary_source,
\* mime_type, basename) and every other value unchanged; a request with
\* attachments sends the union of body fields and attachments in that way,
\* the body field winning when a name occurs in both.
C25_MultipartFields ==
    /\ mp_op = "request" => SentExactly(Keys(mp_body), mp_body, <<>>)
    /\ mp_op = "attachments" =>
          SentExactly(Keys(mp_body) \cup Keys(mp_att), mp_body, mp_att)

\* A request with attachments in which "thumb" names a body field and an
\* attachment holding different files, and the body's caption is None: the
\* body's file was sent under "thumb", next to the other attachment, and no
\* caption.
C25_Witness ==
    /\ mp_op = "attachments"
    /\ HasKey(mp_att, "thumb")
    /\ HasKey(mp_att, "attacheduuid-1")
    /\ IsFileDescription(GetItem(mp_body, "thumb"))
    /\ GetItem(mp_body, "thumb") # GetItem(mp_att, "thumb")
    /\ GetItem(mp_body, "caption") = None
    /\ GetItem(mp_sent, "thumb")[4] = AttrOf(GetItem(mp_body, "thumb"), "basename")
    /\ GetItem(mp_sent, "attacheduuid-1")[1] = "MultipartData"
    /\ ~HasKey(mp_sent, "caption")

\* The values asks/multipart.py documents as descriptions of a file.
IsFileDescribing(value) ==
    value[1] \in {"Path", "PathMultipartData", "BytesMultipartData",
                  "IOMultipartData", "stream"}

\* The bytes of the file a value describes.
BytesOfFile(value) ==
    CASE value[1] = "Path" -> file_bytes(value)
      [] value[1] = "stream" -> stream_bytes(value)
      [] value[1] = "PathMultipartData" -> file_bytes(value[2])
      [] value[1] = "BytesMultipartData" -> value[2]
      [] value[1] = "IOMultipartData" -> stream_bytes(value[2])

\* The mime type known of the file a value describes, None when none is.
MimeTypeOfFile(value) ==
    CASE value[1] = "Path" -> guess_type(value[2])
      [] value[1] = "stream" ->
            IF value[2] # MISSING /\ value[2][1] = "str"
            THEN guess_type(value[2])
            ELSE None
      [] OTHER -> value[3]

\* The basename of the file a value describes, None when it has none.
BasenameOfFile(value) ==
    CASE value[1] = "Path" -> value[2]
      [] value[1] = "stream" ->
            IF value[2] # MISSING /\ value[2][1] = "str" THEN value[2] ELSE None
      [] OTHER -> value[4]

\* C26: _to_multipart_form_data treats a Path, a PathMultipartData, a
\* BytesMultipartData, an IOMultipartData and an object with a read method
\* as a file: it returns the file's bytes, its mime type (application/
\* octet-stream when none is known) and its basename; a value of another
\* kind, and only such a value, is returned as str(value) encoded, with no
\* mime type and no filename.
C26_FileValuesAreFiles ==
    mp_op = "form_data" =>
        IF IsFileDescribing(mp_value)
        THEN /\ ~IsRaise(mp_data)
             /\ mp_data = << BytesOfFile(mp_value),
                             IF MimeTypeOfFile(mp_value) = None
                             THEN OctetStream
                             ELSE MimeTypeOfFile(mp_value),
                             BasenameOfFile(mp_value) >>
        ELSE mp_data = <<str_encode(mp_value), None, None>>

\* C30: in run_bot every update of a received batch is passed to the
\* handler, in batch order and one at a time, before the next get_updates
\* call is made; the offset of the next call is the batch's last update_id
\* plus 1 when the batch is not empty and the previous offset when it is,
\* so that, the update ids increasing, no handled update is requested
\* again.
C30_PollingLoop ==
    /\ bot_pc = "handle" =>
          /\ upd_i \in 1..(Len(updates) + 1)
          /\ handled = SubSeq(received, 1, Len(received) - Len(updates) + upd_i - 1)
    /\ (bot_pc = "poll" /\ requested # <<>>) =>
          /\ handled = received
          /\ offset = IF updates # <<>>
                      THEN updates[Len(updates)].update_id + 1
                      ELSE requested[Len(requested)]
          /\ \A n \in 1..Len(handled) : handled[n].update_id < offset
    /\ \A a, b \in 1..Len(handled) : a < b => handled[a].update_id < handled[b].update_id

\* The loop is about to poll a third time: the first batches held two
\* updates or more, all handled, the last batch was empty and left the
\* offset behind the last handled update.
C30_Witness ==
    /\ bot_pc = "poll"
    /\ Len(requested) = 2
    /\ Len(handled) >= 2
    /\ updates = <<>>
    /\ offset = handled[Len(handled)].update_id + 1
    /\ offset = requested[2]

====
